---- MODULE Spec2Model ----
(***************************************************************************)
(* Model of book.py (hut_reservation_bot): main()'s retry scheduler for a  *)
(* single request, its multi-request coordinator, resolve_poll_settings,   *)
(* and the end of run_attempt (the dry-run / confirm-submit gate).         *)
(*                                                                         *)
(* Python lists are 0-based; the model numbers requests 1..Len(configs).   *)
(* Python's None for poll_settings is the empty tuple << >>.               *)
(***************************************************************************)
EXTENDS Integers, Sequences, FiniteSets, TLC

(* ----------------------------- bounds ---------------------------------- *)
MaxConfigs == 3          \* at most this many --config arguments
MaxPolled == 2           \* at most this many requests are polled together
MaxCeiling == 3          \* max-attempts ceilings range over 0..MaxCeiling
MaxJitter == 2           \* jitter seconds are 0 or MaxJitter
CycleCap == MaxCeiling + 1   \* attempts/cycles explored of an unbounded run

(* ------------------------ program constants ---------------------------- *)
DefaultInterval == 300   \* --interval-seconds / poll_interval_seconds default
DefaultJitter == 0       \* --jitter-seconds / poll_jitter_seconds default
DefaultMaxAttempts == 0  \* --max-attempts / poll_max_attempts default

AvailabilityNotFoundError == "AvailabilityNotFoundError"
RuntimeError == "RuntimeError"
ValueError == "ValueError"

VARIABLES
  args,            \* parse_args(): poll, interval_seconds, jitter_seconds,
                   \*   max_attempts, dry_run, confirm_submit
  configs,         \* [load_config(path) for path in args.config]
  pc,              \* main()'s position
  poll_flags,      \* main: poll_flags
  poll_settings,   \* main: poll_settings (<< >> is None)
  attempt,         \* main: attempt (single-request loop)
  cycle,           \* main: cycle (coordinator)
  pending,         \* main: pending
  attempt_counts,  \* main: attempt_counts
  todo,            \* rest of the snapshot list(pending) the for loop walks
  k,               \* index of the for loops over configs (1-based)
  apc,             \* run_attempt's position: "idle" when none is in flight
  cur,             \* request of the attempt in flight (0: none)
  err,             \* the exception main() ended with ("" if none)
  wait_time,       \* main: wait_time of the time.sleep in progress (0: none)
  log              \* history: attempts started, their results, sleeps, submits

\* ensure_calendar_month(page, target_date), called on its own
VARIABLES
  start,           \* the period (year, month) the datepicker showed at the call
  current,         \* (current_year, current_month): the period it shows now
  target,          \* (target.year, target.month)
  iter,            \* iterations of "for _ in range(24)" begun
  clicks,          \* clicks issued on next_btn and on prev_btn
  npc              \* "idle", "loop", "returned" or "raised"

navvars == <<start, current, target, iter, clicks, npc>>

\* format_date_for_ui(date_str), called on its own
VARIABLES
  date_str,        \* the argument, a Python str as its sequence of characters
  ui_date,         \* the str returned
  dpc              \* "idle", "call" or "returned"

datevars == <<date_str, ui_date, dpc>>

\* fill_input_or_validate(locator, value, field_name) and
\* fill_personal_value(page, label_text, value), called on their own
VARIABLES
  fill_fn,         \* which of the two is called
  field,           \* the input: found or None, enabled or not, its content
  field_at_call,   \* history: the input as it was at the call
  value,           \* the argument: party_size (an int) or a contact str
  fpc              \* "idle", "call", "returned" or "raised"

fillvars == <<fill_fn, field, field_at_call, value, fpc>>

\* find_input_by_labels(page, labels) and choose_hut_option(page, hut_name),
\* called on their own
VARIABLES
  res_fn,          \* which of the two is called
  labels,          \* find_input_by_labels: labels
  inputs,          \* the page's inputs and textareas, in document order
  found,           \* the input returned (its place in inputs; 0: None)
  hut_name,        \* choose_hut_option: hut_name
  listed,          \* page.wait_for_selector(hut_options) did not time out
  option_texts,    \* choose_hut_option: option_texts
  input_holds,     \* hut_input.first.input_value().strip() is not empty
  clicked_option,  \* the option clicked (its place in option_texts; 0: none)
  chosen,          \* the text choose_hut_option returns
  rpc              \* "idle", the strategy at hand, "returned" or "raised"

resvars == <<res_fn, labels, inputs, found, hut_name, listed, option_texts,
             input_holds, clicked_option, chosen, rpc>>

\* run_attempt(config, username, password, args, attempt_index), one call
\* followed step by step
VARIABLES
  config,          \* config: allow_alternative_dates, allow_waitlist
  wpc,             \* run_attempt's position ("idle": not called)
  state,           \* the WizardState reached (its place in WizardStates)
  date_text,       \* the page: the text of the date-range input
  advanced,        \* the page: the overnight step's markers are visible
  caller,          \* who called select_date_range: "run_attempt" or "verify"
  vsite,           \* which call of ensure_expected_date_range (1..5; 0: none)
  strict,          \* that call's allow_alternative_dates is False
  acts,            \* history: the interactions with the page, in order
  result,          \* how the call ended ("": it has not)
  screenshot_dir,  \* screenshot_dir: None, or the directory of the captures
  step,            \* step: the number of the last capture
  snaps            \* history: how many times snap was called

wizvars == <<config, wpc, state, date_text, advanced, caller, vsite, strict, acts,
             result, screenshot_dir, step, snaps>>

\* the state of the functions that are run on their own
auxvars == <<navvars, datevars, fillvars, resvars, wizvars>>

vars == <<args, configs, pc, poll_flags, poll_settings, attempt, cycle, pending,
          attempt_counts, todo, k, apc, cur, err, wait_time, log, auxvars>>

(* ------------------------------ history -------------------------------- *)
Ev(e, idx, n, r) == [e |-> e, idx |-> idx, n |-> n, r |-> r]

(* ------------------------------ inputs --------------------------------- *)
\* load_config: poll_interval_seconds >= 1, poll_jitter_seconds >= 0,
\* poll_max_attempts >= 0.  Four schedules, pairwise different; each of the
\* last three differs from the first in exactly one field.
Schedule(i, j, m) ==
  [poll_interval_seconds |-> i, poll_jitter_seconds |-> j, poll_max_attempts |-> m]

ScheduleBase == Schedule(DefaultInterval, MaxJitter, MaxCeiling)
ScheduleDefault == Schedule(DefaultInterval, DefaultJitter, DefaultMaxAttempts)

ScheduleOtherInterval == Schedule(2 * DefaultInterval, MaxJitter, MaxCeiling)

ConfigSchedules ==
  { ScheduleBase,
    ScheduleOtherInterval,
    Schedule(DefaultInterval, DefaultJitter, MaxCeiling),
    Schedule(DefaultInterval, MaxJitter, DefaultMaxAttempts) }

Config(ap, s) ==
  [auto_poll_if_full |-> ap,
   poll_interval_seconds |-> s.poll_interval_seconds,
   poll_jitter_seconds |-> s.poll_jitter_seconds,
   poll_max_attempts |-> s.poll_max_attempts]

\* Which requests of a list have auto_poll_if_full: every list of at most
\* MaxConfigs requests, at most MaxPolled of them with it, in every order.
AutoPollVectors ==
  UNION { {f \in [1..n -> BOOLEAN] : Cardinality({i \in 1..n : f[i]}) <= MaxPolled} :
            n \in 1..MaxConfigs }

\* With --poll every request is polled: lists of at most MaxPolled requests,
\* all of them with auto_poll_if_full or none.
UniformVectors == UNION { {[i \in 1..n |-> b] : b \in BOOLEAN} : n \in 1..MaxPolled }

\* The list for f: a request without auto_poll_if_full leaves the poll_*
\* fields at load_config's defaults; the last request with it carries
\* schedule c, the ones before it schedule b.
ConfigList(f, b, c) ==
  LET last == IF \E i \in DOMAIN f : f[i]
                THEN CHOOSE i \in DOMAIN f : f[i] /\ \A j \in DOMAIN f : f[j] => j <= i
                ELSE 0
  IN  [i \in DOMAIN f |->
         IF ~f[i] THEN Config(FALSE, ScheduleDefault)
         ELSE IF i = last THEN Config(TRUE, c) ELSE Config(TRUE, b)]

\* argparse takes any int: the global schedule may be invalid.  The valid
\* global schedules vary the ceiling without jitter, and the jitter without
\* ceiling; the invalid ones break one check each.
ArgSchedules ==
  {<<DefaultInterval, DefaultJitter, m>> : m \in {-1} \cup (0..MaxCeiling)}
    \cup {<<DefaultInterval, j, DefaultMaxAttempts>> : j \in {-1, MaxJitter}}
    \cup {<<0, DefaultJitter, DefaultMaxAttempts>>}

Args(p, i, j, m, d, c) ==
  [poll |-> p, interval_seconds |-> i, jitter_seconds |-> j, max_attempts |-> m,
   dry_run |-> d, confirm_submit |-> c]

(* ----------------------- resolve_poll_settings ------------------------- *)
Polled(cs, flags) == {i \in 1..Len(cs) : flags[i]}

\* main: poll_flags = [args.poll or cfg["auto_poll_if_full"] for cfg in configs]
PollFlags(a, cs) == [i \in 1..Len(cs) |-> a.poll \/ cs[i].auto_poll_if_full]

\* mutant: only the intervals are compared
SettingsMismatch_IntervalsOnly(cs, flags) ==
  Cardinality({cs[i].poll_interval_seconds : i \in Polled(cs, flags)}) > 1

\* len(intervals) > 1 or len(jitters) > 1 or len(max_attempts_set) > 1
SettingsMismatch(cs, flags) ==
  LET intervals == {cs[i].poll_interval_seconds : i \in Polled(cs, flags)}
      jitters == {cs[i].poll_jitter_seconds : i \in Polled(cs, flags)}
      max_attempts_set == {cs[i].poll_max_attempts : i \in Polled(cs, flags)}
  IN  Cardinality(intervals) > 1 \/ Cardinality(jitters) > 1
        \/ Cardinality(max_attempts_set) > 1

\* [ok |-> FALSE] is the ValueError; otherwise val is the returned tuple
\* (interval, jitter, max_attempts), or << >> for None.
resolve_poll_settings(cs, flags, a) ==
  IF a.poll
    THEN [ok |-> TRUE, val |-> <<a.interval_seconds, a.jitter_seconds, a.max_attempts>>]
  ELSE IF Polled(cs, flags) = {}
    THEN [ok |-> TRUE, val |-> << >>]
  ELSE IF SettingsMismatch(cs, flags)
    THEN [ok |-> FALSE, val |-> << >>]
  ELSE LET i == CHOOSE j \in Polled(cs, flags) : TRUE
       IN  [ok |-> TRUE, val |-> <<cs[i].poll_interval_seconds,
                                   cs[i].poll_jitter_seconds,
                                   cs[i].poll_max_attempts>>]

\* mutant: only the interval is checked
ScheduleInvalid_IntervalOnly(ps) == ps[1] <= 0

\* main: the three checks of the shared schedule
ScheduleInvalid(ps) == ps[1] <= 0 \/ ps[2] < 0 \/ ps[3] < 0

interval_seconds == poll_settings[1]
jitter_seconds == poll_settings[2]
max_attempts == poll_settings[3]

(* --------------------------- retry policy ------------------------------ *)
\* mutant: "except Exception" in place of "except AvailabilityNotFoundError"
Retryable_AnyError(e) == TRUE

\* except AvailabilityNotFoundError: the one exception main() catches
Retryable(e) == e = AvailabilityNotFoundError

\* mutant: "attempt > max_attempts", one attempt too many
CeilingReached_Late(m, n) == m # 0 /\ n > m

\* mutant: the ceiling is taken one cycle early
CeilingReached_Early(m, n) == m # 0 /\ n >= m - 1

\* mutant: the "max_attempts and" test is lost, so 0 is a ceiling too
CeilingReached_ZeroIsCeiling(m, n) == n >= m

\* if max_attempts and attempt >= max_attempts: raise
CeilingReached(m, n) == m # 0 /\ n >= m

\* mutant: the interval is left out of the sum
WaitTimes_JitterOnly(i, j) == IF j # 0 THEN {r : r \in 0..j} ELSE {0}

\* interval_seconds + (random.randint(0, jitter_seconds) if jitter_seconds else 0)
\* random.randint(a, b) returns an integer N with a <= N <= b.
WaitTimes(i, j) == IF j # 0 THEN {i + r : r \in 0..j} ELSE {i}

(* --------------------------- submit gate -------------------------------- *)
\* mutant: the "if not args.confirm_submit: return" is lost
SubmitAllowed_Unconfirmed(a) == ~a.dry_run

\* run_attempt reaches submit_btn.click() only past "if args.dry_run: return"
\* and "if not args.confirm_submit: return".
SubmitAllowed(a) == ~a.dry_run /\ a.confirm_submit

(* ------------------- functions that are not running -------------------- *)
NoPeriod == <<0, 0>>
NoClicks == [next |-> 0, prev |-> 0]

NavIdle ==
  /\ start = NoPeriod /\ current = NoPeriod /\ target = NoPeriod
  /\ iter = 0 /\ clicks = NoClicks /\ npc = "idle"

DateIdle == date_str = << >> /\ ui_date = << >> /\ dpc = "idle"

NoField == [found |-> FALSE, enabled |-> FALSE, content |-> << >>]

\* a Python value that is an int or a str
IntValue(n) == [int |-> TRUE, n |-> n, text |-> << >>]
StrValue(t) == [int |-> FALSE, n |-> 0, text |-> t]
NoValue == StrValue(<< >>)

FillIdle ==
  /\ fill_fn = "" /\ field = NoField /\ field_at_call = NoField
  /\ value = NoValue /\ fpc = "idle"

FindIdle == labels = << >> /\ inputs = << >> /\ found = 0

HutIdle ==
  /\ hut_name = << >> /\ listed = FALSE /\ option_texts = << >>
  /\ input_holds = FALSE /\ clicked_option = 0 /\ chosen = << >>

ResIdle == res_fn = "" /\ FindIdle /\ HutIdle /\ rpc = "idle"

None == "None"

NoConfig == [allow_alternative_dates |-> FALSE, allow_waitlist |-> FALSE]

WizIdle ==
  /\ config = NoConfig /\ wpc = "idle" /\ state = 0 /\ date_text = << >>
  /\ advanced = FALSE /\ caller = "" /\ vsite = 0 /\ strict = FALSE
  /\ acts = << >> /\ result = ""
  /\ screenshot_dir = None /\ step = 0 /\ snaps = 0

AuxIdle == NavIdle /\ DateIdle /\ FillIdle /\ ResIdle /\ WizIdle

(* ----------------------------- Init ------------------------------------ *)
Init ==
  /\ AuxIdle
  /\ \E d \in BOOLEAN, c \in BOOLEAN :
       \/ /\ args = Args(FALSE, DefaultInterval, DefaultJitter, DefaultMaxAttempts, d, c)
          /\ \E f \in AutoPollVectors :
               \E sb \in ConfigSchedules \ {ScheduleOtherInterval}, sc \in ConfigSchedules :
                 configs = ConfigList(f, sb, sc)
       \/ /\ \E s \in ArgSchedules : args = Args(TRUE, s[1], s[2], s[3], d, c)
          /\ \E f \in UniformVectors :
               \E sc \in {ScheduleBase, ScheduleOtherInterval} :
                 configs = ConfigList(f, ScheduleBase, sc)
  /\ pc = "start"
  /\ poll_flags = << >>
  /\ poll_settings = << >>
  /\ attempt = 0
  /\ cycle = 0
  /\ pending = << >>
  /\ attempt_counts = << >>
  /\ todo = << >>
  /\ k = 0
  /\ apc = "idle"
  /\ cur = 0
  /\ err = ""
  /\ wait_time = 0
  /\ log = << >>

(* ------------------------------ main ----------------------------------- *)
\* mutant: every request is appended to pending, polled or not
IsPolled_Always(flags, i) == TRUE

\* for idx, flag in enumerate(poll_flags): if flag:
IsPolled(flags, i) == flags[i]

\* mutant: the for loop walks pending itself, not a copy: removing the
\* current element makes the iterator skip the one after it
RestAfterRemove_Live(t) == IF Len(t) > 1 THEN Tail(Tail(t)) ELSE << >>

\* for idx in list(pending): what is left to walk after pending.remove(idx)
RestAfterRemove(t) == Tail(t)

\* mutant: the completed request is left in pending
RemoveCompleted_Kept(p, idx) == p

\* pending.remove(idx)
RemoveCompleted(p, idx) == SelectSeq(p, LAMBDA x : x # idx)

\* mutant: the counter of the request is left as it is
Counted_Never(counts, idx) == counts

\* attempt_counts[idx] += 1
Counted(counts, idx) == [counts EXCEPT ![idx] = @ + 1]

Raise(e) == pc' = "raised" /\ err' = e

\* mutant: run_attempt is started and main() goes on without waiting for it
Launch_Detached(idx, n) ==
  /\ apc' = apc
  /\ cur' = idx
  /\ log' = Append(log, Ev("attempt", idx, n, ""))

\* run_attempt(configs[idx], ..., attempt_index=n) is called
Launch(idx, n) ==
  /\ apc' = "wizard"
  /\ cur' = idx
  /\ log' = Append(log, Ev("attempt", idx, n, ""))

\* main() from parse_args() to the first loop: resolve_poll_settings, the
\* branch on len(configs) and poll_enabled, the checks of the shared schedule.
Startup ==
  /\ pc = "start"
  /\ LET flags == PollFlags(args, configs)
         res == resolve_poll_settings(configs, flags, args)
         poll_enabled == res.val # << >>
     IN  /\ poll_flags' = flags
         /\ poll_settings' = res.val
         /\ IF ~res.ok
              THEN Raise(ValueError) /\ UNCHANGED <<k, attempt_counts>>
            ELSE IF poll_enabled /\ ScheduleInvalid(res.val)
              THEN Raise(ValueError) /\ UNCHANGED <<k, attempt_counts>>
            ELSE IF Len(configs) = 1
              THEN /\ pc' = IF poll_enabled THEN "single_poll" ELSE "single_once"
                   /\ UNCHANGED <<err, k, attempt_counts>>
            ELSE IF ~poll_enabled
              THEN pc' = "all_once" /\ k' = 1 /\ UNCHANGED <<err, attempt_counts>>
            ELSE /\ pc' = "split"
                 /\ k' = 1
                 /\ attempt_counts' = [i \in 1..Len(configs) |-> 0]
                 /\ UNCHANGED err
  /\ UNCHANGED <<auxvars, args, configs, attempt, cycle, pending, todo, apc, cur, wait_time, log>>

\* single request, polling: while True: attempt += 1; run_attempt(...)
SingleStart ==
  /\ pc = "single_poll" /\ apc = "idle"
  /\ attempt < CycleCap
  /\ attempt' = attempt + 1
  /\ Launch(1, attempt + 1)
  /\ UNCHANGED <<auxvars, args, configs, pc, poll_flags, poll_settings, cycle, pending,
                 attempt_counts, todo, k, err, wait_time>>

\* single request, no polling: run_attempt(config, ..., attempt_index=1)
OnceStart ==
  /\ pc = "single_once" /\ apc = "idle"
  /\ Launch(1, 1)
  /\ UNCHANGED <<auxvars, args, configs, pc, poll_flags, poll_settings, attempt, cycle,
                 pending, attempt_counts, todo, k, err, wait_time>>

\* several requests, no polling: for cfg in configs: run_attempt(cfg, ...)
AllOnceStart ==
  /\ pc = "all_once" /\ apc = "idle"
  /\ k <= Len(configs)
  /\ Launch(k, 1)
  /\ UNCHANGED <<auxvars, args, configs, pc, poll_flags, poll_settings, attempt, cycle,
                 pending, attempt_counts, todo, k, err, wait_time>>

AllOnceDone ==
  /\ pc = "all_once" /\ apc = "idle"
  /\ k > Len(configs)
  /\ pc' = "done"
  /\ UNCHANGED <<auxvars, args, configs, poll_flags, poll_settings, attempt, cycle, pending,
                 attempt_counts, todo, k, apc, cur, err, wait_time, log>>

\* coordinator: for idx, flag in enumerate(poll_flags): if flag: pending.append(idx)
SplitPolled ==
  /\ pc = "split" /\ apc = "idle"
  /\ k <= Len(configs) /\ IsPolled(poll_flags, k)
  /\ pending' = Append(pending, k)
  /\ k' = k + 1
  /\ UNCHANGED <<auxvars, args, configs, pc, poll_flags, poll_settings, attempt, cycle,
                 attempt_counts, todo, apc, cur, err, wait_time, log>>

\* ... else: run_attempt(configs[idx], ..., attempt_index=1)
SplitNonPolledStart ==
  /\ pc = "split" /\ apc = "idle"
  /\ k <= Len(configs) /\ ~IsPolled(poll_flags, k)
  /\ Launch(k, 1)
  /\ UNCHANGED <<auxvars, args, configs, pc, poll_flags, poll_settings, attempt, cycle,
                 pending, attempt_counts, todo, k, err, wait_time>>

\* cycle = 0, then the test of "while pending:" (also after each sleep);
\* the for loop walks the copy list(pending).
WhileTest ==
  /\ \/ pc = "split" /\ apc = "idle" /\ k > Len(configs)
     \/ pc = "while"
  /\ IF pending = << >>
       THEN pc' = "done" /\ UNCHANGED <<cycle, todo>>
       ELSE /\ cycle < CycleCap
            /\ cycle' = cycle + 1
            /\ todo' = pending
            /\ pc' = "for"
  /\ UNCHANGED <<auxvars, args, configs, poll_flags, poll_settings, attempt, pending,
                 attempt_counts, k, apc, cur, err, wait_time, log>>

\* for idx in list(pending): attempt_counts[idx] += 1; run_attempt(...)
CycleStart ==
  /\ pc = "for" /\ apc = "idle"
  /\ todo # << >>
  /\ LET idx == Head(todo)
     IN  /\ attempt_counts' = Counted(attempt_counts, idx)
         /\ Launch(idx, attempt_counts'[idx])
  /\ UNCHANGED <<auxvars, args, configs, pc, poll_flags, poll_settings, attempt, cycle,
                 pending, todo, k, err, wait_time>>

\* mutant: the coordinator sleeps after every cycle and finds pending empty
\* only at the next test of the while loop
CycleEnd_SleepsAnyway ==
  /\ pc = "for" /\ apc = "idle"
  /\ todo = << >>
  /\ pc' = "cycle_sleep"
  /\ UNCHANGED <<auxvars, args, configs, poll_flags, poll_settings, attempt, cycle, pending,
                 attempt_counts, todo, k, apc, cur, err, wait_time, log>>

\* after the for loop: if not pending: return
CycleEnd ==
  /\ pc = "for" /\ apc = "idle"
  /\ todo = << >>
  /\ pc' = IF pending = << >> THEN "done" ELSE "cycle_sleep"
  /\ UNCHANGED <<auxvars, args, configs, poll_flags, poll_settings, attempt, cycle, pending,
                 attempt_counts, todo, k, apc, cur, err, wait_time, log>>

\* wait_time = interval_seconds + (...); time.sleep(wait_time), in either loop
Sleep ==
  /\ pc \in {"single_sleep", "cycle_sleep"}
  /\ wait_time = 0
  /\ \E w \in WaitTimes(interval_seconds, jitter_seconds) : wait_time' = w
  /\ log' = Append(log, Ev("sleep", 0, 0, ""))
  /\ UNCHANGED pc
  /\ UNCHANGED <<auxvars, args, configs, poll_flags, poll_settings, attempt, cycle, pending,
                 attempt_counts, todo, k, apc, cur, err>>

\* time.sleep returns: back to the top of the while loop
Wake ==
  /\ pc \in {"single_sleep", "cycle_sleep"}
  /\ wait_time # 0
  /\ wait_time' = 0
  /\ pc' = IF pc = "single_sleep" THEN "single_poll" ELSE "while"
  /\ UNCHANGED <<auxvars, args, configs, poll_flags, poll_settings, attempt, cycle, pending,
                 attempt_counts, todo, k, apc, cur, err, log>>

(* ------------- what main() does when run_attempt ends ------------------ *)
\* mutant: in the single loop a return is followed by the sleep and another
\* attempt, as a failure is
MainOnReturn_SingleRetries ==
  CASE pc = "single_poll" ->
         pc' = "single_sleep" /\ UNCHANGED <<pending, todo, k, err>>
    [] pc = "single_once" ->
         pc' = "done" /\ UNCHANGED <<pending, todo, k, err>>
    [] pc \in {"all_once", "split"} ->
         k' = k + 1 /\ UNCHANGED <<pc, pending, todo, err>>
    [] pc = "for" ->
         /\ pending' = RemoveCompleted(pending, cur)
         /\ todo' = RestAfterRemove(todo)
         /\ UNCHANGED <<pc, k, err>>

\* run_attempt returned: "return" in the single loop, the next config in the
\* for loops, pending.remove(idx) in a coordinator cycle.
MainOnReturn ==
  CASE pc \in {"single_poll", "single_once"} ->
         pc' = "done" /\ UNCHANGED <<pending, todo, k, err>>
    [] pc \in {"all_once", "split"} ->
         k' = k + 1 /\ UNCHANGED <<pc, pending, todo, err>>
    [] pc = "for" ->
         /\ pending' = RemoveCompleted(pending, cur)
         /\ todo' = RestAfterRemove(todo)
         /\ UNCHANGED <<pc, k, err>>

\* mutant: the loop over the non-polled requests swallows the error that
\* is retried and goes on with the next request
MainOnRaise_CaughtInSplit(e) ==
  IF pc = "split" /\ Retryable(e)
    THEN k' = k + 1 /\ UNCHANGED <<pc, pending, todo, err>>
    ELSE Raise(e) /\ UNCHANGED <<pending, todo, k>>

\* run_attempt raised e: only the two polling loops have an except clause,
\* and only for AvailabilityNotFoundError.
MainOnRaise(e) ==
  CASE pc = "single_poll" /\ Retryable(e) ->
         /\ IF CeilingReached(max_attempts, attempt)
              THEN Raise(e)
              ELSE pc' = "single_sleep" /\ UNCHANGED err
         /\ UNCHANGED <<pending, todo, k>>
    [] pc = "for" /\ Retryable(e) ->
         /\ IF CeilingReached(max_attempts, cycle)
              THEN Raise(e) /\ UNCHANGED todo
              ELSE todo' = Tail(todo) /\ UNCHANGED <<pc, err>>
         /\ UNCHANGED <<pending, k>>
    [] OTHER ->
         Raise(e) /\ UNCHANGED <<pending, todo, k>>

(* --------------------------- run_attempt -------------------------------- *)
Finish(r) ==
  /\ apc' = "idle"
  /\ cur' = 0
  /\ UNCHANGED <<auxvars, args, configs, poll_flags, poll_settings, attempt, cycle,
                 attempt_counts, wait_time>>

Returns(r, clicked) ==
  /\ Finish(r)
  /\ log' = IF clicked
              THEN Append(Append(log, Ev("submit", cur, 0, "")), Ev("result", cur, 0, r))
              ELSE Append(log, Ev("result", cur, 0, r))
  /\ MainOnReturn

Raises(e) ==
  /\ Finish(e)
  /\ log' = Append(log, Ev("result", cur, 0, e))
  /\ MainOnRaise(e)

\* login .. availability step: a raise AvailabilityNotFoundError of
\* select_date_range or of the availability step
WizardUnavailable ==
  /\ apc = "wizard"
  /\ Raises(AvailabilityNotFoundError)

\* login .. consent checkboxes: any RuntimeError of a step
WizardFails ==
  /\ apc = "wizard"
  /\ Raises(RuntimeError)

\* the steps up to snap(..., "summary_checked") went through
WizardReachesSummary ==
  /\ apc = "wizard"
  /\ apc' = "summary"
  /\ UNCHANGED <<auxvars, args, configs, pc, poll_flags, poll_settings, attempt, cycle,
                 pending, attempt_counts, todo, k, cur, err, wait_time, log>>

\* if args.dry_run: browser.close(); return
DryRunStop ==
  /\ apc = "summary"
  /\ args.dry_run
  /\ Returns("DryRunStopped", FALSE)

\* find_summary_submit_button raises, or submit_btn.is_disabled()
SubmitDisabled ==
  /\ apc = "summary"
  /\ ~args.dry_run
  /\ Raises(RuntimeError)

\* the submit button is enabled: return before the click unless confirmed,
\* else submit_btn.click()
SubmitGate ==
  /\ apc = "summary"
  /\ ~args.dry_run
  /\ IF SubmitAllowed(args)
       THEN Returns("Completed", TRUE)
       ELSE Returns("AwaitingConfirmation", FALSE)

Next ==
  \/ Startup
  \/ SingleStart
  \/ OnceStart
  \/ AllOnceStart
  \/ AllOnceDone
  \/ SplitPolled
  \/ SplitNonPolledStart
  \/ WhileTest
  \/ CycleStart
  \/ CycleEnd
  \/ Sleep
  \/ Wake
  \/ WizardUnavailable
  \/ WizardFails
  \/ WizardReachesSummary
  \/ DryRunStop
  \/ SubmitDisabled
  \/ SubmitGate

Spec == Init /\ [][Next]_vars

(* ======================= properties of the runs ======================== *)
Returned == {"DryRunStopped", "AwaitingConfirmation", "Completed"}
LogIdx == 1..Len(log)
SleepsAt == {p \in LogIdx : log[p].e = "sleep"}
ResultsAt == {p \in LogIdx : log[p].e = "result"}
AttemptsAt == {p \in LogIdx : log[p].e = "attempt"}
NumSleeps == Cardinality(SleepsAt)
NumAttempts == Cardinality(AttemptsAt)
NumUnavailable ==
  Cardinality({p \in ResultsAt : log[p].r = AvailabilityNotFoundError})

\* main() got past the startup checks with polling enabled
PollingRun == pc # "start" /\ poll_settings # << >> /\ ~ScheduleInvalid(poll_settings)
SingleRun == PollingRun /\ Len(configs) = 1
CoordinatorRun == PollingRun /\ Len(configs) > 1

\* C1: with polling enabled, an attempt that fails with anything but
\* AvailabilityNotFoundError is the last event of the run (no attempt and no
\* sleep follows it) and main() ends with that very error.
C1_OnlyAvailabilityRetried ==
  PollingRun =>
    \A p \in ResultsAt :
      (log[p].r \notin Returned /\ log[p].r # AvailabilityNotFoundError) =>
        /\ p = Len(log)
        /\ pc = "raised"
        /\ err = log[p].r
        /\ apc = "idle"
        /\ wait_time = 0

\* C1 witness: a coordinator run that slept, then lost a second-cycle attempt
\* to a RuntimeError while two requests were pending.
C1_Witness ==
  /\ CoordinatorRun
  /\ pc = "raised" /\ err = RuntimeError
  /\ cycle >= 2 /\ Len(pending) >= 2

\* C2: a submit click is in the history only if confirm_submit is true and
\* dry_run is false; an attempt that returns has clicked submit exactly when
\* it ends Completed, and ends DryRunStopped exactly when dry_run is set.
C2_SubmitNeedsConfirmation ==
  /\ \A p \in LogIdx :
       log[p].e = "submit" => (args.confirm_submit /\ ~args.dry_run)
  /\ \A p \in ResultsAt :
       log[p].r \in Returned =>
         /\ (log[p].r = "Completed") = (log[p - 1].e = "submit")
         /\ (log[p].r = "DryRunStopped") = args.dry_run
         /\ (log[p].r = "AwaitingConfirmation") =
              (~args.dry_run /\ ~args.confirm_submit)

\* C2 witness: the submit control was clicked in some attempt.
C2_Witness == \E p \in LogIdx : log[p].e = "submit"

\* C3: one polled request with ceiling M > 0: never more than M attempts; as
\* long as every attempt failed with AvailabilityNotFoundError the run is not
\* done, it has raised exactly when M attempts failed, and then it made M
\* attempts and M - 1 sleeps and ended with AvailabilityNotFoundError.
C3_ExhaustedAfterCeiling ==
  (SingleRun /\ max_attempts > 0) =>
    /\ NumAttempts <= max_attempts
    /\ (\A p \in ResultsAt : log[p].r = AvailabilityNotFoundError) =>
         /\ pc # "done"
         /\ (pc = "raised") = (NumUnavailable = max_attempts)
         /\ pc = "raised" =>
              /\ err = AvailabilityNotFoundError
              /\ NumAttempts = max_attempts
              /\ NumSleeps = max_attempts - 1

\* C3 witness: the largest ceiling, exhausted.
C3_Witness ==
  /\ SingleRun /\ max_attempts = MaxCeiling
  /\ pc = "raised" /\ err = AvailabilityNotFoundError
  /\ NumAttempts = MaxCeiling /\ NumSleeps = MaxCeiling - 1

\* C4 as stated: a sleep lasts d with interval <= d < interval + jitter when
\* jitter > 0, and d = interval when jitter = 0.
C4_SleepBelowIntervalPlusJitter ==
  (PollingRun /\ wait_time # 0) =>
    IF jitter_seconds > 0
      THEN interval_seconds <= wait_time /\ wait_time < interval_seconds + jitter_seconds
      ELSE wait_time = interval_seconds

\* C4 amended: a sleep lasts d with interval <= d <= interval + jitter when
\* jitter > 0 (random.randint includes both ends), and d = interval when
\* jitter = 0; nothing sleeps outside a polling run.
C4_SleepWithinIntervalPlusJitter ==
  /\ wait_time # 0 => PollingRun
  /\ (PollingRun /\ wait_time # 0) =>
       IF jitter_seconds > 0
         THEN interval_seconds <= wait_time /\ wait_time <= interval_seconds + jitter_seconds
         ELSE wait_time = interval_seconds

\* C4 witness: a sleep of exactly interval + jitter seconds, jitter > 0.
C4_Witness ==
  /\ PollingRun /\ jitter_seconds > 0
  /\ wait_time = interval_seconds + jitter_seconds

\* C5: with max_attempts = 0 a polling loop never ends with
\* AvailabilityNotFoundError (only a non-polled request of the coordinator's
\* first pass, before cycle 1, can end the run with it); the single-request
\* loop has slept once per failed attempt (the sleep after the last failure
\* may be about to start), and the run is done only when every polled
\* request has returned.  Runs are followed for CycleCap attempts or cycles.
C5_ZeroMeansUnbounded ==
  (PollingRun /\ max_attempts = 0) =>
    /\ (pc = "raised" /\ err = AvailabilityNotFoundError) =>
         (Len(configs) > 1 /\ cycle = 0)
    /\ Len(configs) = 1 =>
         NumSleeps = NumUnavailable
                       - (IF pc = "single_sleep" /\ wait_time = 0 THEN 1 ELSE 0)
    /\ pc = "done" =>
         \A i \in Polled(configs, poll_flags) :
           \E p \in ResultsAt : log[p].idx = i /\ log[p].r \in Returned

\* C5 witness: an unbounded single-request run that failed more often than
\* any ceiling allows and is about to sleep again.
C5_Witness ==
  /\ SingleRun /\ max_attempts = 0
  /\ NumUnavailable = CycleCap /\ CycleCap > MaxCeiling
  /\ pc = "single_sleep"

(* ---------------------- the coordinator's cycles ----------------------- *)
\* the members of S in input order
Ascending(S) == SelectSeq([i \in 1..Len(configs) |-> i], LAMBDA i : i \in S)
IsPrefix(a, b) == Len(a) <= Len(b) /\ SubSeq(b, 1, Len(a)) = a

PolledSet == Polled(configs, poll_flags)
NonPolledSet == (1..Len(configs)) \ PolledSet

\* positions of the sleeps, in order; cycle c lies between sleep c-1 and sleep c
SleepPos == SelectSeq([p \in 1..Len(log) |-> p], LAMBDA p : log[p].e = "sleep")
SegFirst(sp, c) == IF c = 1 THEN 1 ELSE sp[c - 1] + 1
SegLast(sp, c) == IF c <= Len(sp) THEN sp[c] - 1 ELSE Len(log)

\* the requests of S whose attempts start at positions a..b, in log order
AttemptedIn(a, b, S) ==
  LET at == SelectSeq(SubSeq(log, a, b), LAMBDA ev : ev.e = "attempt" /\ ev.idx \in S)
  IN  [j \in 1..Len(at) |-> at[j].idx]

\* the positions at which a run_attempt call returned, and for which request
ReturnsAt == {p \in LogIdx : log[p].e = "result" /\ log[p].r \in Returned}
ReturnedBefore(p) == {log[q].idx : q \in {r \in ReturnsAt : r < p}}

\* the polled requests that have not returned before position p
PendingBefore(p) == Ascending(PolledSet \ ReturnedBefore(p))

\* C6: in a coordinator run the polled attempts between two sleeps are the
\* requests pending at the start of that cycle, each once, in input order:
\* all of them when the cycle ended with a sleep or with the run done, a
\* prefix of them while the cycle is under way or was cut by a raise.
C6_CycleAttemptsEachPendingOnce ==
  CoordinatorRun =>
    LET sp == SleepPos
    IN  \A c \in 1..(Len(sp) + 1) :
          LET tried == AttemptedIn(SegFirst(sp, c), SegLast(sp, c), PolledSet)
              due == PendingBefore(SegFirst(sp, c))
          IN  /\ IsPrefix(tried, due)
              /\ (c <= Len(sp) \/ pc = "done") => tried = due

\* C6 witness: the second cycle attempted two pending requests and the
\* coordinator is about to sleep for the second time.
C6_Witness ==
  /\ CoordinatorRun
  /\ cycle = 2 /\ pc = "cycle_sleep" /\ wait_time = 0
  /\ Len(pending) >= 2 /\ NumSleeps = 1

\* C7: in a coordinator run no attempt of a request follows a return of that
\* request, and from cycle 1 on pending holds exactly the polled requests
\* that have not returned (a request that failed with
\* AvailabilityNotFoundError is still in it), in input order.
C7_CompletedLeavesPending ==
  CoordinatorRun =>
    /\ \A p \in ReturnsAt :
         \A q \in (p + 1)..Len(log) :
           ~(log[q].e = "attempt" /\ log[q].idx = log[p].idx)
    /\ cycle >= 1 => pending = PendingBefore(Len(log) + 1)

\* C7 witness: in cycle 2 or later one request has returned and another one,
\* which failed with AvailabilityNotFoundError, was attempted again.
C7_Witness ==
  /\ CoordinatorRun /\ cycle >= 2
  /\ \E i \in PolledSet, j \in PolledSet :
       /\ \E p \in ResultsAt : log[p].idx = i /\ log[p].r \in Returned
       /\ \E p \in ResultsAt : log[p].idx = j /\ log[p].r = AvailabilityNotFoundError
       /\ Cardinality({q \in AttemptsAt : log[q].idx = j}) >= 2
       /\ j \in {pending[x] : x \in 1..Len(pending)}

\* C8: in a coordinator run with ceiling M > 0 the cycle counter never
\* exceeds M, and right after an attempt of a cycle failed with
\* AvailabilityNotFoundError the run has raised that error exactly when
\* cycle >= M.
C8_CycleCounterAgainstCeiling ==
  (CoordinatorRun /\ max_attempts > 0) =>
    /\ cycle <= max_attempts
    /\ (cycle >= 1 /\ log # << >> /\ log[Len(log)].e = "result"
          /\ log[Len(log)].r = AvailabilityNotFoundError) =>
         /\ (pc = "raised") = (cycle >= max_attempts)
         /\ pc = "raised" => err = AvailabilityNotFoundError

\* C8 witness: exhausted in cycle M >= 2 by a request, after another request
\* had returned in an earlier cycle (its own counter is below the cycle's).
C8_Witness ==
  /\ CoordinatorRun /\ max_attempts >= 2
  /\ pc = "raised" /\ err = AvailabilityNotFoundError
  /\ cycle = max_attempts
  /\ \E i \in PolledSet : attempt_counts[i] < cycle

\* the polled requests' poll_* values are not pairwise equal
PolledDiffer ==
  /\ pc # "start"
  /\ Cardinality(PolledSet) >= 2
  /\ \E i \in PolledSet, j \in PolledSet :
       \/ configs[i].poll_interval_seconds # configs[j].poll_interval_seconds
       \/ configs[i].poll_jitter_seconds # configs[j].poll_jitter_seconds
       \/ configs[i].poll_max_attempts # configs[j].poll_max_attempts

\* C9 as stated: when two or more polled requests differ in a poll_* value,
\* main() ends with a ValueError before any attempt.
C9_DifferingSchedulesAlwaysFail ==
  PolledDiffer => (pc = "raised" /\ err = ValueError /\ log = << >>)

\* C9 amended: when two or more polled requests differ in a poll_* value and
\* --poll is not given, main() ends with a ValueError before any attempt;
\* with --poll the schedule is the global one of the command line. Whenever
\* polling is enabled without --poll, every polled request carries exactly
\* the shared schedule.
C9_DifferingSchedulesFailWithoutPollFlag ==
  /\ (PolledDiffer /\ ~args.poll) =>
       (pc = "raised" /\ err = ValueError /\ log = << >> /\ poll_settings = << >>)
  /\ (PolledDiffer /\ args.poll) =>
       poll_settings = <<args.interval_seconds, args.jitter_seconds, args.max_attempts>>
  /\ (pc # "start" /\ ~args.poll /\ poll_settings # << >>) =>
       \A i \in PolledSet :
         poll_settings = <<configs[i].poll_interval_seconds,
                           configs[i].poll_jitter_seconds,
                           configs[i].poll_max_attempts>>

\* C9 witness: two polled requests with the same interval but different
\* jitter or ceiling, rejected at startup.
C9_Witness ==
  /\ PolledDiffer /\ ~args.poll
  /\ \A i \in PolledSet, j \in PolledSet :
       configs[i].poll_interval_seconds = configs[j].poll_interval_seconds
  /\ pc = "raised" /\ err = ValueError

\* C10: in a coordinator run with non-polled requests, the attempts of the
\* non-polled requests are a prefix of these requests in input order (each
\* at most once); before the first polled attempt and before the first sleep
\* all of them have been attempted; a run that is done has attempted all.
C10_NonPolledOnceAndFirst ==
  (CoordinatorRun /\ NonPolledSet # {}) =>
    /\ IsPrefix(AttemptedIn(1, Len(log), NonPolledSet), Ascending(NonPolledSet))
    /\ LET later == {p \in LogIdx :
                       log[p].e = "sleep"
                         \/ (log[p].e = "attempt" /\ log[p].idx \in PolledSet)}
       IN  later # {} =>
             LET first == CHOOSE p \in later : \A q \in later : p <= q
             IN  AttemptedIn(1, first - 1, NonPolledSet) = Ascending(NonPolledSet)
    /\ pc = "done" =>
         AttemptedIn(1, Len(log), NonPolledSet) = Ascending(NonPolledSet)

\* C10 witness: two non-polled requests around a polled one; the polled one
\* failed, the coordinator slept and attempted it again.
C10_Witness ==
  /\ CoordinatorRun
  /\ Cardinality(NonPolledSet) >= 2
  /\ \E i \in PolledSet : \E a \in NonPolledSet, b \in NonPolledSet : a < i /\ i < b
  /\ NumSleeps >= 1 /\ cycle = 2 /\ pc = "for"

\* the sleeps before position p of the log
SleepsBefore(p) == Cardinality({q \in SleepsAt : q < p})

\* the attempts of request i, and the last of them
AttemptsOf(i) == {p \in AttemptsAt : log[p].idx = i}
LastAttemptOf(i) == CHOOSE p \in AttemptsOf(i) : \A q \in AttemptsOf(i) : q <= p

\* C31: in a coordinator run the attempt index passed to an attempt of a
\* polled request is the number of the cycle (one more than the sleeps
\* made so far), and it is the request's own counter; while the attempt is
\* under way that counter equals the cycle counter; a request still pending
\* has been attempted in every cycle up to the last or the current one; and
\* the counter of a request that returned stays at the cycle of its return.
C31_CounterEqualsCycle ==
  CoordinatorRun =>
    /\ \A p \in AttemptsAt :
         log[p].idx \in PolledSet =>
           /\ log[p].n = SleepsBefore(p) + 1
           /\ Cardinality({q \in AttemptsOf(log[p].idx) : q <= p}) = log[p].n
    /\ (pc = "for" /\ apc # "idle") =>
         /\ attempt_counts[cur] = cycle
         /\ log[LastAttemptOf(cur)].n = cycle
    /\ cycle >= 1 =>
         \A i \in PolledSet :
           IF \E x \in 1..Len(pending) : pending[x] = i
           THEN attempt_counts[i] \in {cycle - 1, cycle}
           ELSE /\ AttemptsOf(i) # {}
                /\ attempt_counts[i] = log[LastAttemptOf(i)].n
                /\ attempt_counts[i] <= cycle
                /\ \E p \in ReturnsAt :
                     /\ log[p].idx = i
                     /\ attempt_counts[i] = SleepsBefore(p) + 1

\* C31 witness: in cycle 3 one request is attempted for the third time
\* while the counter of a request that returned in cycle 1 is still 1.
C31_Witness ==
  /\ CoordinatorRun
  /\ pc = "for" /\ apc # "idle"
  /\ cycle > 2
  /\ attempt_counts[cur] = cycle
  /\ \E i \in PolledSet : attempt_counts[i] = 1 /\ i \notin {pending[x] : x \in 1..Len(pending)}

\* the coordinator gave up in a cycle: the error of the last attempt went
\* through the for loop
Exhausted ==
  /\ CoordinatorRun /\ max_attempts > 0
  /\ cycle >= 1
  /\ pc = "raised" /\ err = AvailabilityNotFoundError

\* C32: when the coordinator gives up with ceiling M > 0 it is in cycle M
\* and the failure is the first AvailabilityNotFoundError of that cycle and
\* the last event of the run (no sleep follows, M - 1 sleeps were made);
\* the failing request is the first of pending, the pending requests up to
\* it have been attempted M times and those after it M - 1 times.
C32_ExhaustedAtFirstFailureOfLastCycle ==
  Exhausted =>
    LET last == log[Len(log)]
    IN  /\ cycle = max_attempts
        /\ last.e = "result" /\ last.r = AvailabilityNotFoundError
        /\ NumSleeps = max_attempts - 1
        /\ \A p \in ResultsAt :
             (log[p].r = AvailabilityNotFoundError /\ SleepsBefore(p) = max_attempts - 1
                /\ log[p].idx \in PolledSet) => p = Len(log)
        /\ pending # << >> /\ Head(pending) = last.idx
        /\ \A x \in 1..Len(pending) :
             /\ pending[x] <= last.idx =>
                  /\ attempt_counts[pending[x]] = max_attempts
                  /\ Cardinality(AttemptsOf(pending[x])) = max_attempts
             /\ pending[x] > last.idx =>
                  /\ attempt_counts[pending[x]] = max_attempts - 1
                  /\ Cardinality(AttemptsOf(pending[x])) = max_attempts - 1

\* C32 witness: given up in cycle M >= 2 at the first of two pending
\* requests, the second one attempted M - 1 times.
C32_Witness ==
  /\ Exhausted
  /\ max_attempts >= 2
  /\ Len(pending) >= 2
  /\ attempt_counts[pending[Len(pending)]] = max_attempts - 1

\* the attempts of non-polled requests that failed with
\* AvailabilityNotFoundError
NonPolledUnavailable ==
  {p \in ResultsAt : log[p].idx \in NonPolledSet /\ log[p].r = AvailabilityNotFoundError}

\* C35: in a coordinator run, an AvailabilityNotFoundError of a non-polled
\* request ends the run with that error at once: it is the last event, the
\* request was attempted once, there was no sleep, no polled request was
\* attempted and no non-polled request after it in input order.
C35_NonPolledUnavailableAborts ==
  CoordinatorRun =>
    \A p \in NonPolledUnavailable :
      /\ p = Len(log)
      /\ pc = "raised" /\ err = AvailabilityNotFoundError
      /\ cycle = 0
      /\ NumSleeps = 0
      /\ Cardinality(AttemptsOf(log[p].idx)) = 1
      /\ \A q \in AttemptsAt :
           /\ log[q].idx \in NonPolledSet
           /\ log[q].idx <= log[p].idx

\* C35 witness: a non-polled request failed, with a polled request before
\* it and another request after it in input order.
C35_Witness ==
  /\ CoordinatorRun
  /\ \E p \in NonPolledUnavailable :
       /\ \E i \in PolledSet : i < log[p].idx
       /\ \E i \in PolledSet \cup NonPolledSet : i > log[p].idx

\* the polled requests that have not returned before position p, as a set
StillPendingAt(p) == PolledSet \ ReturnedBefore(p)

\* C34: with polling enabled, an attempt that returns, whether it stopped as
\* a dry run, stopped before the submit or clicked the submit, is the last
\* attempt of its request; in the single loop it ends the run at once, with
\* no sleep after it; in the coordinator the request is out of pending from
\* then on, and every later sleep is made for another request that is
\* still pending.
C34_EveryReturnIsDone ==
  PollingRun =>
    \A p \in ReturnsAt :
      /\ log[p].r \in {"DryRunStopped", "AwaitingConfirmation", "Completed"}
      /\ \A q \in AttemptsOf(log[p].idx) : q < p
      /\ SingleRun => (p = Len(log) /\ pc = "done")
      /\ (CoordinatorRun /\ log[p].idx \in PolledSet) =>
           /\ \A x \in 1..Len(pending) : pending[x] # log[p].idx
           /\ \A q \in SleepsAt : q > p => StillPendingAt(q) \ {log[p].idx} # {}

\* C34 witness: the submit was withheld for one request in the first cycle,
\* the other request failed, and the coordinator slept and is in cycle 2
\* without the first request.
C34_Witness ==
  /\ CoordinatorRun
  /\ cycle = 2
  /\ NumSleeps = 1
  /\ \E p \in ReturnsAt :
       /\ log[p].r = "AwaitingConfirmation"
       /\ log[p].idx \in PolledSet
       /\ \E q \in SleepsAt : q > p
       /\ \A x \in 1..Len(pending) : pending[x] # log[p].idx

\* C37: a polling run that is done has made no sleep after its last return:
\* the last event is a return; the single loop made one sleep less than
\* attempts, the coordinator one sleep less than cycles; and every sleep is
\* preceded directly by a failure with AvailabilityNotFoundError.
C37_NoSleepAfterLastCompletion ==
  /\ (PollingRun /\ pc = "done") =>
       /\ log # << >>
       /\ log[Len(log)].e = "result" /\ log[Len(log)].r \in Returned
       /\ SingleRun => (NumSleeps = attempt - 1 /\ NumAttempts = attempt)
       /\ CoordinatorRun => NumSleeps = cycle - 1
  /\ PollingRun =>
       \A q \in SleepsAt :
         /\ q > 1
         /\ log[q - 1].e = "result"
         /\ SingleRun => log[q - 1].r = AvailabilityNotFoundError
         /\ CoordinatorRun => StillPendingAt(q) # {}

\* C37 witness: the coordinator is done in its third cycle after two sleeps.
C37_Witness ==
  /\ CoordinatorRun
  /\ pc = "done"
  /\ cycle > 2
  /\ NumSleeps = cycle - 1

(* ======================================================================= *)
(* The functions run_attempt calls, each run on its own from every input   *)
(* of a bounded set.  main() is not running: its variables stay as below.  *)
(* ======================================================================= *)
mainvars == <<args, configs, pc, poll_flags, poll_settings, attempt, cycle, pending,
              attempt_counts, todo, k, apc, cur, err, wait_time, log>>

\* main() is not running
MainStopped ==
  /\ configs = << >>
  /\ pc = "idle"
  /\ poll_flags = << >>
  /\ poll_settings = << >>
  /\ attempt = 0
  /\ cycle = 0
  /\ pending = << >>
  /\ attempt_counts = << >>
  /\ todo = << >>
  /\ k = 0
  /\ apc = "idle"
  /\ cur = 0
  /\ err = ""
  /\ wait_time = 0
  /\ log = << >>

MainIdle ==
  /\ args = Args(FALSE, DefaultInterval, DefaultJitter, DefaultMaxAttempts, FALSE, FALSE)
  /\ MainStopped

(* ----------------------- ensure_calendar_month -------------------------- *)
FirstYear == 2025        \* the datepicker shows the years FirstYear ..
NumYears == 3            \*   FirstYear + NumYears - 1
MaxNavSteps == 24        \* for _ in range(24)

Periods == {<<y, m>> : y \in FirstYear..(FirstYear + NumYears - 1), m \in 1..12}

\* mutant: the months are compared, the years are not
Earlier_MonthOnly(a, b) == a[2] < b[2]

\* (current_year, current_month) < (target.year, target.month): Python
\* compares tuples lexicographically
Earlier(a, b) == a[1] < b[1] \/ (a[1] = b[1] /\ a[2] < b[2])

\* what the datepicker shows after a click on "Next month" / "Previous
\* month": it moves one month per click
NextMonth(p) == IF p[2] = 12 THEN <<p[1] + 1, 1>> ELSE <<p[1], p[2] + 1>>
PrevMonth(p) == IF p[2] = 1 THEN <<p[1] - 1, 12>> ELSE <<p[1], p[2] - 1>>

NavInit ==
  /\ MainIdle /\ DateIdle /\ FillIdle /\ ResIdle /\ WizIdle
  /\ start \in Periods
  /\ current = start
  /\ target \in Periods
  /\ iter = 0
  /\ clicks = NoClicks
  /\ npc = "loop"

\* mutant: the period is compared once more after the last click
NavReturn_AfterLastClick ==
  /\ npc = "loop"
  /\ current = target
  /\ npc' = "returned"
  /\ UNCHANGED <<start, current, target, iter, clicks, mainvars, datevars, fillvars, resvars, wizvars>>

\* if (current_year, current_month) == (target.year, target.month): return
NavReturn ==
  /\ npc = "loop" /\ iter < MaxNavSteps
  /\ current = target
  /\ npc' = "returned"
  /\ UNCHANGED <<start, current, target, iter, clicks, mainvars, datevars, fillvars, resvars, wizvars>>

\* if (current_year, current_month) < (...): click_calendar_button(next_btn, ...)
NavNext ==
  /\ npc = "loop" /\ iter < MaxNavSteps
  /\ current # target /\ Earlier(current, target)
  /\ current' = NextMonth(current)
  /\ clicks' = [clicks EXCEPT !.next = @ + 1]
  /\ iter' = iter + 1
  /\ UNCHANGED <<start, target, npc, mainvars, datevars, fillvars, resvars, wizvars>>

\* else: click_calendar_button(prev_btn, ...)
NavPrev ==
  /\ npc = "loop" /\ iter < MaxNavSteps
  /\ current # target /\ ~Earlier(current, target)
  /\ current' = PrevMonth(current)
  /\ clicks' = [clicks EXCEPT !.prev = @ + 1]
  /\ iter' = iter + 1
  /\ UNCHANGED <<start, target, npc, mainvars, datevars, fillvars, resvars, wizvars>>

\* the for loop is used up:
\* raise RuntimeError("Unable to navigate calendar to target month")
NavGiveUp ==
  /\ npc = "loop" /\ iter = MaxNavSteps
  /\ npc' = "raised"
  /\ UNCHANGED <<start, current, target, iter, clicks, mainvars, datevars, fillvars, resvars, wizvars>>

NextNav ==
  \/ NavReturn
  \/ NavNext
  \/ NavPrev
  \/ NavGiveUp

SpecNav == NavInit /\ [][NextNav]_vars

\* months from the period shown at the call to the target (negative: back)
MonthIndex(p) == 12 * p[1] + p[2]
MonthsAway == MonthIndex(target) - MonthIndex(start)
Abs(n) == IF n < 0 THEN -n ELSE n
NavEnded == npc \in {"returned", "raised"}

\* the clicks issued so far, in either direction
NavClicks == clicks.next + clicks.prev

\* C36: navigation never issues more than 24 clicks; towards a target d
\* months away it returns after exactly d clicks when d <= 23, and when
\* d >= 24 it raises RuntimeError after exactly 24 clicks, also when d = 24
\* and the 24th click has brought up the month of the target.
C36_NavigationBounded ==
  /\ npc # "idle" => (NavClicks <= MaxNavSteps /\ NavClicks = iter)
  /\ (NavEnded /\ Abs(MonthsAway) < MaxNavSteps) =>
       /\ npc = "returned"
       /\ NavClicks = Abs(MonthsAway)
       /\ current = target
  /\ (NavEnded /\ Abs(MonthsAway) >= MaxNavSteps) =>
       /\ npc = "raised"
       /\ NavClicks = MaxNavSteps
       /\ (current = target) = (Abs(MonthsAway) = MaxNavSteps)

\* C36 witness: the target was exactly 24 months away; the 24th click shows
\* its month and the navigation has raised.
C36_Witness ==
  /\ npc = "raised"
  /\ Abs(MonthsAway) = MaxNavSteps
  /\ current = target
  /\ NavClicks = MaxNavSteps

\* C19 (as stated): whatever the two periods, navigation ends having issued
\* exactly |12*(y2-y1) + (m2-m1)| clicks, all "next" towards a later target
\* and all "previous" towards an earlier one.
C19_ClicksEqualDistance ==
  NavEnded =>
    /\ clicks.next = (IF MonthsAway > 0 THEN MonthsAway ELSE 0)
    /\ clicks.prev = (IF MonthsAway < 0 THEN -MonthsAway ELSE 0)

\* C19 (amended): towards a target less than 24 months away navigation
\* returns having issued exactly that many clicks, all of them "next"
\* (target later) or all of them "previous" (target earlier); and whatever
\* the distance, no click is ever issued in the direction away from the
\* target nor beyond it.
C19_ClicksEqualDistanceWithinRange ==
  /\ (NavEnded /\ Abs(MonthsAway) < MaxNavSteps) =>
       /\ npc = "returned"
       /\ clicks.next = (IF MonthsAway > 0 THEN MonthsAway ELSE 0)
       /\ clicks.prev = (IF MonthsAway < 0 THEN -MonthsAway ELSE 0)
  /\ npc # "idle" =>
       /\ clicks.next <= (IF MonthsAway > 0 THEN MonthsAway ELSE 0)
       /\ clicks.prev <= (IF MonthsAway < 0 THEN -MonthsAway ELSE 0)
       /\ MonthIndex(current) = MonthIndex(start) + clicks.next - clicks.prev

\* from (2026, 6) back to (2025, 12): returned after 6 "previous" clicks
C19_Witness ==
  /\ npc = "returned"
  /\ start = <<2026, 6>> /\ target = <<2025, 12>>
  /\ clicks = [next |-> 0, prev |-> 6]

(* ------------------------------ text ----------------------------------- *)
\* A Python str is the sequence of its characters.
DigitChars == <<"0", "1", "2", "3", "4", "5", "6", "7", "8", "9">>
Digit(n) == DigitChars[n + 1]
IsDigit(c) == \E i \in 1..10 : DigitChars[i] = c
DigitValue(c) == (CHOOSE i \in 1..10 : DigitChars[i] = c) - 1
AllDigits(t) == t # << >> /\ \A i \in 1..Len(t) : IsDigit(t[i])

RECURSIVE ToInt(_)
\* int() of a run of digits
ToInt(t) ==
  IF t = << >> THEN 0
  ELSE 10 * ToInt(SubSeq(t, 1, Len(t) - 1)) + DigitValue(t[Len(t)])

\* "%02d" and "%04d"
Pad2(n) == <<Digit((n \div 10) % 10), Digit(n % 10)>>
Pad4(n) == <<Digit((n \div 1000) % 10), Digit((n \div 100) % 10)>> \o Pad2(n % 100)

\* the members of a set of numbers, in increasing order
Ascend(S) ==
  [j \in 1..Cardinality(S) |-> CHOOSE i \in S : Cardinality({x \in S : x < i}) = j - 1]

\* t.split(c)
SplitOn(t, c) ==
  LET cuts == <<0>> \o Ascend({i \in 1..Len(t) : t[i] = c}) \o <<Len(t) + 1>>
  IN  [j \in 1..(Len(cuts) - 1) |-> SubSeq(t, cuts[j] + 1, cuts[j + 1] - 1)]

\* sub in t
Contains(t, sub) ==
  \E i \in 0..(Len(t) - Len(sub)) : SubSeq(t, i + 1, i + Len(sub)) = sub

(* ------------------------- format_date_for_ui --------------------------- *)
IsLeap(y) == (y % 4 = 0 /\ y % 100 # 0) \/ y % 400 = 0

DaysInMonth(y, m) ==
  IF m = 2 THEN (IF IsLeap(y) THEN 29 ELSE 28)
  ELSE IF m \in {4, 6, 9, 11} THEN 30 ELSE 31

\* datetime.date(y, m, d) exists
ValidDate(y, m, d) == y \in 1..9999 /\ m \in 1..12 /\ d \in 1..DaysInMonth(y, m)

NoDate == [ok |-> FALSE, year |-> 0, month |-> 0, day |-> 0]

\* The three fields of a strptime format "%Y", "%m", "%d" in some order:
\* %Y takes four digits, %m and %d one or two; the values must be a date of
\* the calendar, else ValueError ([ok |-> FALSE]).
ToDate(ytext, mtext, dtext) ==
  IF AllDigits(ytext) /\ Len(ytext) = 4 /\ AllDigits(mtext) /\ Len(mtext) \in 1..2
       /\ AllDigits(dtext) /\ Len(dtext) \in 1..2
       /\ ValidDate(ToInt(ytext), ToInt(mtext), ToInt(dtext))
    THEN [ok |-> TRUE, year |-> ToInt(ytext), month |-> ToInt(mtext), day |-> ToInt(dtext)]
    ELSE NoDate

\* datetime.strptime(date_str, "%Y-%m-%d").date()
strptime(t) ==
  LET f == SplitOn(t, "-")
  IN  IF Len(f) = 3 THEN ToDate(f[1], f[2], f[3]) ELSE NoDate

RECURSIVE Str(_)
\* str(n) of an int n >= 0
Str(n) == IF n < 10 THEN <<Digit(n)>> ELSE Str(n \div 10) \o <<Digit(n % 10)>>

\* "%Y" of strftime is the C library's: four digits for the years from 1000
\* on; an earlier year is zero-padded by some libraries ("0999") and not by
\* others (glibc: "999").
YearTexts(y) == IF y < 1000 THEN {Pad4(y), Str(y)} ELSE {Pad4(y)}

\* date_obj.strftime("%d.%m.%Y"): the texts it can return
strftime(d) ==
  {Pad2(d.day) \o <<".">> \o Pad2(d.month) \o <<".">> \o yt : yt \in YearTexts(d.year)}

format_date_for_ui(t) == strftime(strptime(t))

\* The texts load_config lets through as check_in / check_out: the dates of
\* the calendar, zero-padded ("2026-02-01") or not ("2026-2-1"); parse_date
\* accepts both, in any year from 0001 to 9999.  The years FirstYear ..
\* and one year of three digits stand for them.
DateYears == {999} \cup (FirstYear..(FirstYear + NumYears - 1))
Unpadded(n) == IF n < 10 THEN <<Digit(n)>> ELSE Pad2(n)
IsoText(y, m, d, padded) ==
  Pad4(y) \o <<"-">> \o (IF padded THEN Pad2(m) ELSE Unpadded(m))
          \o <<"-">> \o (IF padded THEN Pad2(d) ELSE Unpadded(d))

DateTexts ==
  {IsoText(y, m, d, p) : y \in DateYears, m \in 1..12, d \in 1..31, p \in BOOLEAN}

DateInit ==
  /\ MainIdle /\ NavIdle /\ FillIdle /\ ResIdle /\ WizIdle
  /\ date_str \in {t \in DateTexts : strptime(t).ok}
  /\ ui_date = << >>
  /\ dpc = "call"

\* return date_obj.strftime("%d.%m.%Y")
FormatDate ==
  /\ dpc = "call"
  /\ \E u \in format_date_for_ui(date_str) : ui_date' = u
  /\ dpc' = "returned"
  /\ UNCHANGED <<date_str, mainvars, navvars, fillvars, resvars, wizvars>>

NextDate == FormatDate

SpecDate == DateInit /\ [][NextDate]_vars

\* the inverse parse of the claim: datetime.strptime(text, "%d.%m.%Y").date()
ParseUiDate(t) ==
  LET f == SplitOn(t, ".")
  IN  IF Len(f) = 3 THEN ToDate(f[3], f[2], f[1]) ELSE NoDate

\* the text has the shape DD.MM.YYYY
IsDDMMYYYY(t) ==
  /\ Len(t) = 10
  /\ t[3] = "." /\ t[6] = "."
  /\ \A i \in {1, 2, 4, 5, 7, 8, 9, 10} : IsDigit(t[i])

\* C20: every valid date text is formatted (the call returns) to a text of
\* the shape DD.MM.YYYY, a zero-padded YYYY-MM-DD to its own digits in the
\* other order, and parsing the formatted text as day.month.year gives back
\* the calendar date the argument names; so the texts of two different
\* dates differ.
C20_FormatRoundTrips ==
  dpc = "returned" =>
    /\ IsDDMMYYYY(ui_date)
    /\ ParseUiDate(ui_date).ok
    /\ ParseUiDate(ui_date) = strptime(date_str)
    /\ Len(date_str) = 10 =>
         ui_date = SubSeq(date_str, 9, 10) \o <<".">> \o SubSeq(date_str, 6, 7)
                     \o <<".">> \o SubSeq(date_str, 1, 4)

(* ------------- fill_input_or_validate, fill_personal_value -------------- *)
MaxText == 3             \* an input holds at most this many characters
MaxParty == 12           \* party_size ranges over 1..MaxParty

\* str.lower(), on the characters the texts below are made of
LowerChar(c) == IF c = "A" THEN "a" ELSE c
Lower(t) == [i \in 1..Len(t) |-> LowerChar(t[i])]

RECURSIVE Strip(_)
\* str.strip()
Strip(t) ==
  IF t = << >> THEN t
  ELSE IF Head(t) = " " THEN Strip(Tail(t))
  ELSE IF t[Len(t)] = " " THEN Strip(SubSeq(t, 1, Len(t) - 1))
  ELSE t

TextsUpTo(chars, n) == UNION {[1..i -> chars] : i \in 0..n}

\* what an input of the page may hold
Contents == TextsUpTo({"a", "A", "1", "2", " "}, MaxText)

\* require_str: a contact value is a non-empty str without outer blanks
ContactValues == {StrValue(t) : t \in TextsUpTo({"a", "A", "1"}, 2) \ {<< >>}}

\* require_int: party_size is an int >= 1
PartySizes == {IntValue(n) : n \in 1..MaxParty}

\* str(value) of either kind of value
ValueText(v) == IF v.int THEN Str(v.n) ELSE v.text

\* mutant: the test of fill_personal_value without the two lower()
PersonalMismatch_CaseSensitive(v, txt) == v.text # << >> /\ ~Contains(txt, v.text)

\* if value and value.lower() not in current.lower(): raise
PersonalMismatch(v, txt) == v.text # << >> /\ ~Contains(Lower(txt), Lower(v.text))

\* if str(value) not in current: raise
InputMismatch(v, txt) == ~Contains(txt, ValueText(v))

\* locator.fill(str(value)) / field.fill(str(value))
Filled(f, v) == [f EXCEPT !.content = ValueText(v)]

FillInit ==
  /\ MainIdle /\ NavIdle /\ DateIdle /\ ResIdle /\ WizIdle
  /\ \/ fill_fn = "fill_input_or_validate" /\ value \in PartySizes
     \/ fill_fn = "fill_personal_value" /\ value \in ContactValues
  /\ field \in ({NoField} \cup
                [found : {TRUE}, enabled : BOOLEAN, content : Contents])
  /\ field_at_call = field
  /\ fpc = "call"

FillOthers ==
  UNCHANGED <<fill_fn, field_at_call, value, mainvars, navvars, datevars, resvars,
              wizvars>>

\* fill_input_or_validate: "if locator is None: return"; the enabled input
\* is clicked and filled; the disabled one is compared
FillInputOrValidate ==
  /\ fpc = "call" /\ fill_fn = "fill_input_or_validate"
  /\ IF ~field.found
       THEN fpc' = "returned" /\ UNCHANGED field
     ELSE IF field.enabled
       THEN fpc' = "returned" /\ field' = Filled(field, value)
     ELSE /\ fpc' = IF InputMismatch(value, Strip(field.content))
                      THEN "raised" ELSE "returned"
          /\ UNCHANGED field
  /\ FillOthers

\* fill_personal_value: a missing field raises; the enabled field is filled;
\* the disabled one is compared
FillPersonalValue ==
  /\ fpc = "call" /\ fill_fn = "fill_personal_value"
  /\ IF ~field.found
       THEN fpc' = "raised" /\ UNCHANGED field
     ELSE IF field.enabled
       THEN fpc' = "returned" /\ field' = Filled(field, value)
     ELSE /\ fpc' = IF PersonalMismatch(value, Strip(field.content))
                      THEN "raised" ELSE "returned"
          /\ UNCHANGED field
  /\ FillOthers

NextFill ==
  \/ FillInputOrValidate
  \/ FillPersonalValue

SpecFill == FillInit /\ [][NextFill]_vars

FillEnded == fpc \in {"returned", "raised"}
\* the field's content contains the requested value, compared without case
HoldsValue == Contains(Lower(field_at_call.content), Lower(ValueText(value)))

\* C17: for a party-size field and for a personal-data field alike: an
\* enabled field ends holding str(value) and the call returns; a disabled
\* field is left as it was, and the call returns exactly when its content
\* contains the value compared case-insensitively, and raises otherwise.
C17_FillOrValidate ==
  (FillEnded /\ field_at_call.found) =>
    IF field_at_call.enabled
      THEN fpc = "returned" /\ field.content = ValueText(value)
      ELSE /\ field = field_at_call
           /\ fpc = "returned" <=> HoldsValue

\* a disabled personal-data field holding the value in another case is
\* accepted, unwritten
C17_Witness ==
  /\ fpc = "returned" /\ fill_fn = "fill_personal_value"
  /\ field_at_call.found /\ ~field_at_call.enabled
  /\ value = StrValue(<<"a">>) /\ field_at_call.content = <<"1", "A">>
  /\ field = field_at_call

(* --------------- find_input_by_labels, choose_hut_option ---------------- *)
MaxInputs == 3           \* the page has at most this many inputs
MaxOptions == 3          \* the hut search lists at most this many options

RECURSIVE CollapseBlanks(_)
\* re.sub(r"\s+", " ", value)
CollapseBlanks(t) ==
  IF Len(t) < 2 THEN t
  ELSE IF t[1] = " " /\ t[2] = " " THEN CollapseBlanks(Tail(t))
  ELSE <<t[1]>> \o CollapseBlanks(Tail(t))

\* normalize_text(value)
normalize_text(t) == Lower(Strip(CollapseBlanks(t)))

\* label_matches(text, labels)
label_matches(t, ls) ==
  \E j \in 1..Len(ls) : Contains(normalize_text(t), normalize_text(ls[j]))

\* the first of a set of places, in document order (0: there is none)
First(S) == IF S = {} THEN 0 ELSE CHOOSE i \in S : \A j \in S : i <= j

\* The label sought and the texts a page sets against it: the label itself,
\* the label in another case, a text that contains it, a text that does not.
TheLabel == <<"A", "b">>
OtherLabel == <<"b", "1">>
PageTexts == {TheLabel, <<"a", "b">>, <<"A", "b", "1">>, OtherLabel}

\* An input carries its text as its placeholder, as its aria-label, as the
\* mat-label of the mat-form-field around it or as a <label for=...>; the
\* attributes it does not carry are absent.
Input(via, text, visible) == [via |-> via, text |-> text, visible |-> visible]

InputKinds ==
  {Input("placeholder", t, v) : t \in PageTexts, v \in BOOLEAN}
    \cup {Input("aria-label", <<"a", "b">>, v) : v \in BOOLEAN}
    \cup {Input("mat-label", <<"A", "b", "1">>, TRUE), Input("label", TheLabel, TRUE)}

Pages == UNION {[1..n -> InputKinds] : n \in 0..MaxInputs}

\* page.locator(f"input[placeholder='{label}'], textarea[placeholder='{label}']")
WithPlaceholder(ins, label) ==
  {i \in 1..Len(ins) : ins[i].via = "placeholder" /\ ins[i].text = label}

\* the inputs whose attribute `via` matches the labels and that are visible
VisibleMatches(ins, ls, via) ==
  {i \in 1..Len(ins) : ins[i].via = via /\ label_matches(ins[i].text, ls) /\ ins[i].visible}

\* for label in labels: if locator.count() > 0 and visible(locator.first):
\*     return locator.first
ByExactPlaceholder(ins, ls) ==
  LET hit(j) == First(WithPlaceholder(ins, ls[j]))
      good == {j \in 1..Len(ls) : hit(j) # 0 /\ ins[hit(j)].visible}
  IN  IF good = {} THEN 0 ELSE hit(First(good))

\* the strategies of find_input_by_labels after the exact placeholder, in order
Strategies == <<"placeholder", "aria-label", "mat-label", "label">>

\* mutant: an Ambiguous outcome is missing: the first of several is taken
UniqueOf_First(S) == First(S)

\* if len(matches) == 1: the one match (0: none or several)
UniqueOf(S) == IF Cardinality(S) = 1 THEN First(S) ELSE 0

\* exact_matches = [i for i, text in enumerate(option_texts) if text == hut_name]
exact_matches(ts, name) == {i \in 1..Len(ts) : ts[i] = name}

\* mutant: the containing match minds the case
contains_matches_CaseSensitive(ts, name) == {i \in 1..Len(ts) : Contains(ts[i], name)}

\* contains_matches = [i ... if hut_name.lower() in text.lower()]
contains_matches(ts, name) == {i \in 1..Len(ts) : Contains(Lower(ts[i]), Lower(name))}

ResInit ==
  /\ MainIdle /\ NavIdle /\ DateIdle /\ FillIdle /\ WizIdle
  /\ \/ /\ res_fn = "find_input_by_labels"
        /\ labels \in {<<TheLabel>>, <<TheLabel, OtherLabel>>}
        /\ inputs \in Pages
        /\ found = 0
        /\ HutIdle
        /\ rpc = "exact"
     \/ /\ res_fn = "choose_hut_option"
        /\ hut_name = TheLabel
        /\ listed \in BOOLEAN
        /\ option_texts \in UNION {[1..n -> PageTexts] : n \in 0..MaxOptions}
        /\ listed = FALSE => option_texts = << >>
        /\ input_holds \in BOOLEAN
        /\ clicked_option = 0 /\ chosen = << >>
        /\ FindIdle
        /\ rpc = "options"

FindOthers ==
  UNCHANGED <<res_fn, labels, inputs, hut_name, listed, option_texts, input_holds,
              clicked_option, chosen, mainvars, navvars, datevars, fillvars, wizvars>>

HutOthers ==
  UNCHANGED <<res_fn, labels, inputs, found, hut_name, listed, option_texts,
              input_holds, mainvars, navvars, datevars, fillvars, wizvars>>

\* the loop over the labels with the exact placeholder selector
FindExact ==
  /\ rpc = "exact"
  /\ LET i == ByExactPlaceholder(inputs, labels)
     IN  IF i # 0 THEN found' = i /\ rpc' = "returned"
         ELSE found' = 0 /\ rpc' = "placeholder"
  /\ FindOthers

\* one of the four loops that follow: the first visible input whose
\* placeholder / aria-label / mat-label / label text matches the labels
FindBy(via) ==
  /\ rpc = via
  /\ LET i == First(VisibleMatches(inputs, labels, via))
         k0 == CHOOSE j \in 1..Len(Strategies) : Strategies[j] = via
     IN  IF i # 0 THEN found' = i /\ rpc' = "returned"
         ELSE IF k0 < Len(Strategies) THEN found' = 0 /\ rpc' = Strategies[k0 + 1]
         ELSE found' = 0 /\ rpc' = "returned"
  /\ FindOthers

FindByPlaceholder == FindBy("placeholder")
FindByAriaLabel == FindBy("aria-label")
FindByMatLabel == FindBy("mat-label")
FindByLabelFor == FindBy("label")

\* no option list (the wait timed out, or the list is empty): the typed
\* name is returned if the input holds a value, else RuntimeError
HutNoOptions ==
  /\ rpc = "options"
  /\ ~listed \/ option_texts = << >>
  /\ IF input_holds THEN chosen' = hut_name /\ rpc' = "returned"
     ELSE chosen' = << >> /\ rpc' = "raised"
  /\ UNCHANGED clicked_option
  /\ HutOthers

\* the list is there: the one exact match, else the one containing match,
\* is clicked and its text returned; else RuntimeError("Ambiguous ...")
HutMatch ==
  /\ rpc = "options"
  /\ listed /\ option_texts # << >>
  /\ LET e == UniqueOf(exact_matches(option_texts, hut_name))
         c == UniqueOf(contains_matches(option_texts, hut_name))
         i == IF e # 0 THEN e ELSE c
     IN  IF i # 0
           THEN clicked_option' = i /\ chosen' = option_texts[i] /\ rpc' = "returned"
           ELSE clicked_option' = 0 /\ chosen' = << >> /\ rpc' = "raised"
  /\ HutOthers

NextRes ==
  \/ FindExact
  \/ FindByPlaceholder
  \/ FindByAriaLabel
  \/ FindByMatLabel
  \/ FindByLabelFor
  \/ HutNoOptions
  \/ HutMatch

SpecRes == ResInit /\ [][NextRes]_vars

FindCall == res_fn = "find_input_by_labels"
HutCall == res_fn = "choose_hut_option"
ResEnded == rpc \in {"returned", "raised"}

\* the visible inputs whose placeholder is one of the labels, to the letter
ExactVisible ==
  {i \in 1..Len(inputs) : /\ inputs[i].via = "placeholder" /\ inputs[i].visible
                          /\ \E j \in 1..Len(labels) : inputs[i].text = labels[j]}

\* the visible inputs some text of which contains one of the labels
SubstringVisible ==
  {i \in 1..Len(inputs) : inputs[i].visible /\ label_matches(inputs[i].text, labels)}

\* two or more candidates at one tier: several exact matches, or several
\* substring matches without a unique exact one
Several(exact, substring) ==
  Cardinality(exact) >= 2 \/ (Cardinality(exact) # 1 /\ Cardinality(substring) >= 2)

HutListed == listed /\ option_texts # << >>
HutExact == exact_matches(option_texts, hut_name)
HutContains == contains_matches(option_texts, hut_name)

C16_UniqueExactIsReturned ==
  /\ (FindCall /\ ResEnded /\ Cardinality(ExactVisible) = 1) => found \in ExactVisible
  /\ (HutCall /\ ResEnded /\ HutListed /\ Cardinality(HutExact) = 1) =>
       rpc = "returned" /\ clicked_option \in HutExact

(* ------------------------------ run_attempt ----------------------------- *)

\* WizardState, in the order run_attempt goes through it
WizardStates == <<"LoggedOut", "ReservationList", "HutChosen", "WizardReady",
                  "DatesSelected", "PartySizeSet", "AvailabilityResolved",
                  "OvernightFilled", "PersonalFilled", "SummaryReady", "Submitted">>

StateOf(name) == CHOOSE i \in 1..Len(WizardStates) : WizardStates[i] = name

\* config["check_in"], config["check_out"]
check_in == <<"2", "0", "2", "6", "-", "0", "2", "-", "0", "1">>
check_out == <<"2", "0", "2", "6", "-", "0", "2", "-", "0", "3">>

\* the characters normalize_date_text replaces by "-"
Dashes == {"EN DASH", "EM DASH", "MINUS SIGN"}

\* value.replace("–", "-").replace("—", "-").replace("−", "-")
\* and value.replace("’", "'")
ReplaceDashes(t) ==
  [i \in 1..Len(t) |-> IF t[i] \in Dashes THEN "-"
                       ELSE IF t[i] = "RIGHT QUOTE" THEN "'" ELSE t[i]]

normalize_date_text(t) == Strip(CollapseBlanks(ReplaceDashes(Strip(t))))

\* the date as the datepicker writes it; strftime gives one text for the
\* four-digit years of check_in and check_out
UiDate(t) == CHOOSE u \in format_date_for_ui(t) : TRUE

\* f"{format_date_for_ui(check_in)} - {format_date_for_ui(check_out)}"
expected_date_range_value(ci, co) == UiDate(ci) \o <<" ", "-", " ">> \o UiDate(co)

\* expected.split("-", 1)
SplitFirst(t, c) ==
  LET p == First({i \in 1..Len(t) : t[i] = c})
  IN  IF p = 0 THEN <<t>> ELSE <<SubSeq(t, 1, p - 1), SubSeq(t, p + 1, Len(t))>>

\* mutant: only the check-in date is looked for
date_range_matches_LeftOnly(v, expected) ==
  Contains(normalize_date_text(v),
           Strip(SplitFirst(normalize_date_text(expected), "-")[1]))

\* left in normalized and right in normalized
date_range_matches(v, expected) ==
  LET normalized == normalize_date_text(v)
      parts == SplitFirst(normalize_date_text(expected), "-")
  IN  /\ Contains(normalized, Strip(parts[1]))
      /\ Contains(normalized, Strip(parts[2]))

\* what the site may write into the date-range input: the requested range,
\* the same with an en dash and blanks around it, a range it moved by one
\* day, and a range of which it kept the check-in only
RequestedText == expected_date_range_value(check_in, check_out)
RequestedTextEnDash ==
  <<" ">> \o UiDate(check_in) \o <<" ", "EN DASH", " ", " ">> \o UiDate(check_out)
MovedText ==
  UiDate(<<"2", "0", "2", "6", "-", "0", "2", "-", "0", "2">>) \o <<" ", "-", " ">>
    \o UiDate(<<"2", "0", "2", "6", "-", "0", "2", "-", "0", "4">>)
LongerText ==
  UiDate(check_in) \o <<" ", "-", " ">>
    \o UiDate(<<"2", "0", "2", "6", "-", "0", "2", "-", "0", "4">>)
RenderedTexts == {RequestedText, RequestedTextEnDash, MovedText, LongerText}

Requests == [allow_alternative_dates : BOOLEAN, allow_waitlist : BOOLEAN]

AttemptInit ==
  /\ MainStopped /\ NavIdle /\ DateIdle /\ FillIdle /\ ResIdle
  /\ \E d \in BOOLEAN, c \in BOOLEAN :
       args = Args(FALSE, DefaultInterval, DefaultJitter, DefaultMaxAttempts, d, c)
  /\ config \in Requests
  /\ wpc = "login"
  /\ state = StateOf("LoggedOut")
  /\ date_text = << >>
  /\ advanced = FALSE
  /\ caller = "" /\ vsite = 0 /\ strict = FALSE
  /\ acts = << >>
  /\ result = ""
  /\ screenshot_dir \in {None, "screenshots"}
  /\ step = 0
  /\ snaps = 0

AttemptOthers ==
  UNCHANGED <<config, screenshot_dir, mainvars, navvars, datevars, fillvars, resvars>>

\* mutant: the counter goes up whether a capture is made or not
snap_CountsAlways(dir, n) == n + 1

\* snap(page, screenshot_dir, step, label): the new value of step
snap(dir, n) == IF dir = None THEN n ELSE n + 1

\* step = snap(page, screenshot_dir, step, ...) where the action gets as far
\* as a capture
SnapIf(reached) ==
  /\ step' = IF reached THEN snap(screenshot_dir, step) ELSE step
  /\ snaps' = IF reached THEN snaps + 1 ELSE snaps

\* an interaction with the page (or a verification of the date range), with
\* the WizardState it was made in and the verification it belongs to
Act(a, site) == [a |-> a, st |-> state, site |-> site]

Did(a, site) == acts' = Append(acts, Act(a, site))

\* what the history gets of something that is seen or done only when the
\* condition holds
Noted(condition, a, site) == IF condition THEN <<Act(a, site)>> ELSE << >>

\* the call ends: a return value or an exception
Ends(r) == wpc' = "ended" /\ result' = r

\* what is raised when the next step does not come: "Did not reach booking
\* wizard ..." and "Overnight stay form did not load in time" are
\* RuntimeErrors, "Availability flow did not advance to overnight step." is
\* an AvailabilityNotFoundError
StageError(stage) ==
  IF stage = "availability" THEN AvailabilityNotFoundError ELSE RuntimeError

\* must_locator and the other lookups: RuntimeError when the element is
\* not there
Missing ==
  /\ Ends(RuntimeError)
  /\ UNCHANGED <<state, date_text, advanced, caller, vsite, strict, acts>>

\* lines 1084-1101
Login ==
  /\ wpc = "login"
  /\ \/ /\ wpc' = "list"
        /\ Did("login", 0)
        /\ UNCHANGED <<state, date_text, advanced, caller, vsite, strict, result>>
     \/ Missing
  /\ SnapIf(wpc' = "list")
  /\ AttemptOthers

\* lines 1103-1107
OpenReservationList ==
  /\ wpc = "list"
  /\ \/ /\ wpc' = "hut"
        /\ state' = StateOf("ReservationList")
        /\ Did("add_reservation", 0)
        /\ UNCHANGED <<date_text, advanced, caller, vsite, strict, result>>
     \/ Missing
  /\ SnapIf(wpc' = "hut")
  /\ AttemptOthers

\* lines 1109-1111
ChooseHut ==
  /\ wpc = "hut"
  /\ \/ /\ wpc' = "wizard"
        /\ state' = StateOf("HutChosen")
        /\ Did("choose_hut", 0)
        /\ UNCHANGED <<date_text, advanced, caller, vsite, strict, result>>
     \/ Missing
  /\ SnapIf(wpc' = "wizard")
  /\ AttemptOthers

\* lines 1112-1113
WaitForWizard ==
  /\ wpc = "wizard"
  /\ \/ /\ wpc' = "dates"
        /\ state' = StateOf("WizardReady")
        /\ UNCHANGED <<date_text, advanced, caller, vsite, strict, acts, result>>
     \/ /\ Ends(StageError("wizard"))
        /\ Did("wizard_not_reached", 0)
        /\ UNCHANGED <<state, date_text, advanced, caller, vsite, strict>>
  /\ SnapIf(wpc' = "dates")
  /\ AttemptOthers

\* the verification that called select_date_range (0: run_attempt did)
SiteOf(who) == IF who = "verify" THEN vsite ELSE 0

\* select_date_range is called by who (lines 437-456: the datepicker opens)
CallSelect(who) ==
  /\ caller' = who
  /\ \/ /\ wpc' = "check_in_cell"
        /\ Did("select_date_range", SiteOf(who))
        /\ UNCHANGED result
     \/ /\ Ends(RuntimeError)
        /\ UNCHANGED acts

\* line 1115
SelectDates ==
  /\ wpc = "dates"
  /\ CallSelect("run_attempt")
  /\ UNCHANGED <<state, date_text, advanced, vsite, strict>>
  /\ SnapIf(FALSE)
  /\ AttemptOthers

\* mutant: a disabled day is clicked all the same
CellBlocks_Never(disabled) == FALSE

\* cell.first.get_attribute("aria-disabled") == "true"
CellBlocks(disabled) == disabled

\* lines 458-465 for check_in
CheckInCell ==
  /\ wpc = "check_in_cell"
  /\ \/ \E disabled \in BOOLEAN :
          /\ acts' = acts \o Noted(disabled, "check_in_disabled", SiteOf(caller))
                          \o Noted(~CellBlocks(disabled), "click_check_in", SiteOf(caller))
          /\ IF CellBlocks(disabled)
             THEN Ends(AvailabilityNotFoundError)
             ELSE wpc' = "check_out_cell" /\ UNCHANGED result
     \/ /\ Ends(RuntimeError)
        /\ UNCHANGED acts
  /\ UNCHANGED <<state, date_text, advanced, caller, vsite, strict>>
  /\ SnapIf(FALSE)
  /\ AttemptOthers

\* lines 458-466 for check_out, and the return to the caller (after line
\* 1115: the dates are selected; after line 611: the text is read again);
\* the site writes the range it selected into the date-range input
CheckOutCell ==
  /\ wpc = "check_out_cell"
  /\ \/ \E disabled \in BOOLEAN :
          /\ acts' = acts \o Noted(disabled, "check_out_disabled", SiteOf(caller))
                          \o Noted(~CellBlocks(disabled), "click_check_out", SiteOf(caller))
          /\ IF CellBlocks(disabled)
             THEN /\ Ends(AvailabilityNotFoundError)
                  /\ UNCHANGED <<state, date_text, vsite, strict>>
             ELSE /\ date_text' \in RenderedTexts
                  /\ IF caller = "run_attempt"
                     THEN /\ state' = StateOf("DatesSelected")
                          /\ wpc' = "verify"
                          /\ vsite' = 1
                          /\ strict' = ~config.allow_alternative_dates
                     ELSE /\ wpc' = "verify_again"
                          /\ UNCHANGED <<state, vsite, strict>>
                  /\ UNCHANGED result
     \/ /\ Ends(RuntimeError)
        /\ UNCHANGED <<state, date_text, vsite, strict, acts>>
  /\ UNCHANGED <<advanced, caller>>
  /\ SnapIf(wpc' = "verify")
  /\ AttemptOthers

\* mutant: the dates are selected anew after the first verification
AfterVerification_SelectAgain == <<"dates", "find_1", "waitlist_1", "waitlist_2", "waitlist_3">>

\* where run_attempt goes on after the verification at lines 1117, 1122,
\* 1126, 1141 and 1153
AfterVerification == <<"party_size", "find_1", "waitlist_1", "waitlist_2", "waitlist_3">>

\* lines 601-611
Verify ==
  /\ wpc = "verify"
  /\ \/ IF date_range_matches(date_text, expected_date_range_value(check_in, check_out))
           \/ ~strict
        THEN /\ wpc' = AfterVerification[vsite]
             /\ Did("verify", vsite)
             /\ UNCHANGED <<caller, result>>
        ELSE /\ CallSelect("verify")
     \/ /\ Ends(RuntimeError)
        /\ UNCHANGED <<caller, acts>>
  /\ UNCHANGED <<state, date_text, advanced, vsite, strict>>
  /\ SnapIf(FALSE)
  /\ AttemptOthers

\* lines 612-617
VerifyAgain ==
  /\ wpc = "verify_again"
  /\ \/ IF date_range_matches(date_text, expected_date_range_value(check_in, check_out))
        THEN /\ wpc' = AfterVerification[vsite]
             /\ Did("verify", vsite)
             /\ UNCHANGED result
        ELSE /\ Ends(RuntimeError)
             /\ Did("date_range_changed", vsite)
     \/ /\ Ends(RuntimeError)
        /\ UNCHANGED acts
  /\ UNCHANGED <<state, date_text, advanced, caller, vsite, strict>>
  /\ SnapIf(FALSE)
  /\ AttemptOthers

\* ensure_expected_date_range is called (allow_alternative_dates = ~s)
CallVerify(site, s) == wpc' = "verify" /\ vsite' = site /\ strict' = s

\* lines 1119-1122; the site may change the range when the party is set
SetPartySize ==
  /\ wpc = "party_size"
  /\ \/ /\ state' = StateOf("PartySizeSet")
        /\ Did("set_party_size", 0)
        /\ date_text' \in RenderedTexts
        /\ CallVerify(2, ~config.allow_alternative_dates)
        /\ UNCHANGED result
     \/ /\ Ends(RuntimeError)
        /\ UNCHANGED <<state, date_text, vsite, strict, acts>>
  /\ UNCHANGED <<advanced, caller>>
  /\ SnapIf(wpc' = "verify")
  /\ AttemptOthers

\* enable_waitlist_if_present(page): the waiting-list control is ticked
\* when the page offers one (True), and nothing is done when it does not
\* (False)
EnableWaitlist(offered) ==
  Did(IF offered THEN "enable_waitlist" ELSE "no_waitlist_offered", 0)

FindAt == <<"find_1", "find_2">>
WaitlistAt == <<"waitlist_1", "waitlist_2", "waitlist_3">>
TestAt == <<"test_1", "test_2", "test_3">>

\* mutant: after the third click the second check is made again
AdvancedAt_Again == <<"advanced_1", "advanced_2", "advanced_2">>

\* the three calls of availability_advanced that follow the clicks (lines
\* 1138, 1151 and 1170)
AdvancedAt == <<"advanced_1", "advanced_2", "advanced_3">>

\* mutant: the waiting list is tried whatever the request says
WaitlistAllowed_Always(c) == TRUE

\* config["allow_waitlist"]
WaitlistAllowed(c) == c.allow_waitlist

\* mutant: the waiting list is tried without the date-range verification
AvailabilityFind_Unverified(r) ==
  /\ wpc = FindAt[r]
  /\ \/ \E disabled \in BOOLEAN :
          /\ wpc' = IF disabled /\ WaitlistAllowed(config) THEN WaitlistAt[r] ELSE TestAt[r]
          /\ UNCHANGED <<state, date_text, advanced, caller, vsite, strict, acts, result>>
     \/ /\ Ends(RuntimeError)
        /\ Did("proceed_not_found", 0)
        /\ UNCHANGED <<state, date_text, advanced, caller, vsite, strict>>
  /\ SnapIf(FALSE)
  /\ AttemptOthers

\* lines 1124-1126 (r = 1) and 1139-1141 (r = 2): the proceed control is
\* looked up and its disabled state is read
AvailabilityFind(r) ==
  /\ wpc = FindAt[r]
  /\ \/ \E disabled \in BOOLEAN :
          /\ IF disabled /\ WaitlistAllowed(config)
             THEN CallVerify(2 + r, TRUE)
             ELSE wpc' = TestAt[r] /\ UNCHANGED <<vsite, strict>>
          /\ UNCHANGED <<state, date_text, advanced, caller, acts, result>>
     \/ /\ Ends(RuntimeError)
        /\ Did("proceed_not_found", 0)
        /\ UNCHANGED <<state, date_text, advanced, caller, vsite, strict>>
  /\ SnapIf(FALSE)
  /\ AttemptOthers

\* lines 1127-1130 (r = 1), 1142-1145 (r = 2) and 1154-1160 (r = 3)
AvailabilityWaitlist(r) ==
  /\ wpc = WaitlistAt[r]
  /\ \/ \E offered \in BOOLEAN :
          /\ EnableWaitlist(offered)
          /\ IF r = 3 /\ ~offered
             THEN Ends(AvailabilityNotFoundError)
             ELSE wpc' = TestAt[r] /\ UNCHANGED result
          /\ UNCHANGED <<state, date_text, advanced, caller, vsite, strict>>
     \/ /\ Ends(RuntimeError)    \* the control is not found again
        /\ acts' = acts \o <<Act("enable_waitlist", 0), Act("proceed_not_found", 0)>>
        /\ UNCHANGED <<state, date_text, advanced, caller, vsite, strict>>
  /\ SnapIf(r = 3 /\ result' = AvailabilityNotFoundError)
  /\ AttemptOthers

\* mutant: every step with a disabled control gives the error that is retried
Incomplete_AlwaysRetried(stage) == AvailabilityNotFoundError

\* the error raised when the control of a step is disabled: lines 1132, 1147
\* and 1162 raise AvailabilityNotFoundError, lines 1191, 1206 and 1231
\* RuntimeError
Incomplete(stage) ==
  IF stage = "availability" THEN AvailabilityNotFoundError ELSE RuntimeError

\* mutant: the control of a later step is clicked whatever its state
StepBlocked_Never(disabled) == FALSE

\* next_overnight.is_disabled(), next_personal.first.is_disabled() and
\* submit_btn.is_disabled()
StepBlocked(disabled) == disabled

\* mutant: a box is never ticked
NeedsCheck_Never(checked) == FALSE

\* not terms_loc.first.is_checked() / not privacy_loc.first.is_checked()
NeedsCheck(checked) == ~checked

\* mutant: a disabled proceed control stops the attempt only when the
\* request does not allow alternative dates
ProceedBlocked_UnlessAlternatives(disabled, c) ==
  disabled /\ ~c.allow_alternative_dates

\* next_check.is_disabled() / continue_button.is_disabled()
ProceedBlocked(disabled, c) == disabled

\* lines 1131-1136 (r = 1), 1146-1149 (r = 2) and 1161-1164 (r = 3)
AvailabilityTest(r) ==
  /\ wpc = TestAt[r]
  /\ \E disabled \in BOOLEAN :
       /\ acts' = acts \o Noted(disabled, "proceed_disabled", 0)
                       \o Noted(~ProceedBlocked(disabled, config), "click_proceed", 0)
       /\ IF ProceedBlocked(disabled, config)
          THEN Ends(Incomplete("availability"))
          ELSE wpc' = AdvancedAt[r] /\ UNCHANGED result
  /\ UNCHANGED <<state, date_text, advanced, caller, vsite, strict>>
  /\ SnapIf(FALSE)
  /\ AttemptOthers

\* mutant: a request without waiting list goes on whatever it says about
\* alternative dates
GivesUp_Never(c) == FALSE

\* elif not config["allow_alternative_dates"]
GivesUp(c) == ~c.allow_alternative_dates

\* lines 1138 (r = 1) and 1151-1153, 1165-1168 (r = 2): has the overnight
\* step appeared?
AvailabilityAdvanced(r) ==
  /\ wpc = AdvancedAt[r]
  /\ \E now \in BOOLEAN :
       /\ advanced' = (advanced \/ now)
       /\ IF advanced'
          THEN wpc' = AdvancedAt[r + 1] /\ UNCHANGED <<vsite, strict, acts, result>>
          ELSE IF r = 1
          THEN /\ wpc' = FindAt[2]
               /\ Did("not_advanced", 0)
               /\ UNCHANGED <<vsite, strict, result>>
          ELSE IF WaitlistAllowed(config)
          THEN /\ CallVerify(5, TRUE)
               /\ Did("not_advanced", 0)
               /\ UNCHANGED result
          ELSE /\ acts' = acts \o <<Act("not_advanced", 0)>>
                            \o Noted(~GivesUp(config), "accept_alternative", 0)
               /\ IF GivesUp(config)
                  THEN Ends(AvailabilityNotFoundError)
                  ELSE wpc' = AdvancedAt[3] /\ UNCHANGED result
               /\ UNCHANGED <<vsite, strict>>
  /\ UNCHANGED <<state, date_text, caller>>
  /\ SnapIf(FALSE)
  /\ AttemptOthers

\* lines 1170-1172
AvailabilityResolved ==
  /\ wpc = AdvancedAt[3]
  /\ \E now \in BOOLEAN :
       /\ advanced' = (advanced \/ now)
       /\ IF advanced'
          THEN /\ wpc' = "overnight"
               /\ state' = StateOf("AvailabilityResolved")
               /\ UNCHANGED <<acts, result>>
          ELSE /\ Ends(StageError("availability"))
               /\ acts' = acts \o <<Act("not_advanced", 0),
                                     Act("overnight_not_reached", 0)>>
               /\ UNCHANGED state
  /\ UNCHANGED <<date_text, caller, vsite, strict>>
  /\ SnapIf(wpc' = "overnight")
  /\ AttemptOthers

\* lines 1174-1189: the overnight form is awaited and filled, its proceed
\* control is looked up, and the waiting list is tried when the control is
\* disabled
OvernightFill ==
  /\ wpc = "overnight"
  /\ \/ \E disabled \in BOOLEAN :
          /\ IF disabled /\ WaitlistAllowed(config)
             THEN \E offered \in BOOLEAN :
                    acts' = acts \o <<Act("fill_overnight", 0),
                                      Act(IF offered THEN "enable_waitlist"
                                          ELSE "no_waitlist_offered", 0)>>
             ELSE Did("fill_overnight", 0)
          /\ wpc' = "overnight_test"
          /\ UNCHANGED <<state, date_text, advanced, caller, vsite, strict, result>>
     \/ /\ Ends(StageError("overnight"))
        /\ Did("overnight_form_not_loaded", 0)
        /\ UNCHANGED <<state, date_text, advanced, caller, vsite, strict>>
     \/ Missing
  /\ SnapIf(FALSE)
  /\ AttemptOthers

\* lines 1190-1193
OvernightProceed ==
  /\ wpc = "overnight_test"
  /\ \E disabled \in BOOLEAN :
       /\ acts' = acts \o Noted(disabled, "next_overnight_disabled", 0)
                       \o Noted(~StepBlocked(disabled), "click_next_overnight", 0)
       /\ IF StepBlocked(disabled)
          THEN /\ Ends(Incomplete("overnight"))
               /\ UNCHANGED state
          ELSE /\ wpc' = "personal"
               /\ state' = StateOf("OvernightFilled")
               /\ UNCHANGED result
  /\ UNCHANGED <<date_text, advanced, caller, vsite, strict>>
  /\ SnapIf(wpc' = "personal")
  /\ AttemptOthers

\* lines 1195-1208
PersonalFill ==
  /\ wpc = "personal"
  /\ \/ \E disabled \in BOOLEAN :
          /\ acts' = acts \o <<Act("fill_personal", 0)>>
                          \o Noted(disabled, "next_personal_disabled", 0)
                          \o Noted(~StepBlocked(disabled), "click_next_personal", 0)
          /\ IF StepBlocked(disabled)
             THEN /\ Ends(Incomplete("personal"))
                  /\ UNCHANGED state
             ELSE /\ wpc' = "consent"
                  /\ state' = StateOf("PersonalFilled")
                  /\ UNCHANGED result
          /\ UNCHANGED <<date_text, advanced, caller, vsite, strict>>
     \/ Missing
  /\ SnapIf(wpc' = "consent")
  /\ AttemptOthers

\* lines 1210-1216: each box is ticked unless it already is
Consent ==
  /\ wpc = "consent"
  /\ \/ \E terms_checked \in BOOLEAN, privacy_checked \in BOOLEAN :
          /\ acts' = acts
                \o Noted(terms_checked, "terms_checked", 0)
                \o Noted(NeedsCheck(terms_checked), "check_terms", 0)
                \o Noted(privacy_checked, "privacy_checked", 0)
                \o Noted(NeedsCheck(privacy_checked), "check_privacy", 0)
          /\ wpc' = "summary"
          /\ state' = StateOf("SummaryReady")
          /\ UNCHANGED <<date_text, advanced, caller, vsite, strict, result>>
     \/ Missing
  /\ SnapIf(wpc' = "summary")
  /\ AttemptOthers

\* lines 1218-1240
SummaryGate ==
  /\ wpc = "summary"
  /\ \/ /\ args.dry_run
        /\ Ends("DryRunStopped")
        /\ UNCHANGED <<state, acts>>
     \/ /\ ~args.dry_run
        /\ \/ /\ Ends(RuntimeError)    \* "Summary submit button not found"
              /\ Did("submit_not_found", 0)
              /\ UNCHANGED state
           \/ \E disabled \in BOOLEAN :
                /\ IF StepBlocked(disabled)
                   THEN /\ Ends(Incomplete("summary"))
                        /\ acts' = acts \o Noted(disabled, "submit_disabled", 0)
                        /\ UNCHANGED state
                   ELSE IF ~args.confirm_submit
                   THEN /\ Ends("AwaitingConfirmation")
                        /\ acts' = acts \o Noted(disabled, "submit_disabled", 0)
                        /\ UNCHANGED state
                   ELSE /\ Ends("Completed")
                        /\ state' = StateOf("Submitted")
                        /\ acts' = acts \o Noted(disabled, "submit_disabled", 0)
                                        \o <<Act("click_submit", 0)>>
  /\ UNCHANGED <<date_text, advanced, caller, vsite, strict>>
  /\ SnapIf(result' = "Completed")
  /\ AttemptOthers

NextAttempt ==
  \/ Login
  \/ OpenReservationList
  \/ ChooseHut
  \/ WaitForWizard
  \/ SelectDates
  \/ CheckInCell
  \/ CheckOutCell
  \/ Verify
  \/ VerifyAgain
  \/ SetPartySize
  \/ \E r \in 1..2 : AvailabilityFind(r)
  \/ \E r \in 1..3 : AvailabilityWaitlist(r)
  \/ \E r \in 1..3 : AvailabilityTest(r)
  \/ \E r \in 1..2 : AvailabilityAdvanced(r)
  \/ AvailabilityResolved
  \/ OvernightFill
  \/ OvernightProceed
  \/ PersonalFill
  \/ Consent
  \/ SummaryGate

SpecAttempt == AttemptInit /\ [][NextAttempt]_vars

AttemptEnded == wpc = "ended"

\* the WizardState whose step an interaction belongs to (0: to none)
StepOf(a) ==
  CASE a \in {"login", "add_reservation"} -> StateOf("ReservationList")
    [] a = "choose_hut" -> StateOf("HutChosen")
    [] a \in {"select_date_range", "click_check_in", "click_check_out"} ->
         StateOf("DatesSelected")
    [] a = "set_party_size" -> StateOf("PartySizeSet")
    [] a = "click_proceed" -> StateOf("AvailabilityResolved")
    [] a \in {"fill_overnight", "click_next_overnight"} -> StateOf("OvernightFilled")
    [] a \in {"fill_personal", "click_next_personal"} -> StateOf("PersonalFilled")
    [] a \in {"check_terms", "check_privacy"} -> StateOf("SummaryReady")
    [] a = "click_submit" -> StateOf("Submitted")
    [] OTHER -> 0

Interactions == {i \in 1..Len(acts) : StepOf(acts[i].a) # 0}

\* the verifications of the availability sub-protocol (lines 1126, 1141, 1153)
InAvailability(site) == site \in 3..5

\* C11 (as stated): the WizardState moves forward one state at a time, and
\* an interaction is made when a state later than the one of its step was
\* already reached only inside the availability sub-protocol.
C11_StrictlyForward ==
  /\ [](\A i \in Interactions :
          \/ acts[i].st <= StepOf(acts[i].a)
          \/ InAvailability(acts[i].site))
  /\ [][state' \in {state, state + 1}]_vars

\* C11 (amended): the WizardState moves forward one state at a time; every
\* interaction is made in the state before the one of its step, except the
\* date selection that a date-range verification applies again, which is
\* made in DatesSelected (line 1117) or in PartySizeSet (line 1122 and the
\* availability sub-protocol).
C11_ForwardButForVerifications ==
  /\ [](\A i \in Interactions :
          IF acts[i].site = 0
          THEN acts[i].st = StepOf(acts[i].a) - 1
          ELSE /\ StepOf(acts[i].a) = StateOf("DatesSelected")
               /\ acts[i].st = IF acts[i].site = 1 THEN StateOf("DatesSelected")
                               ELSE StateOf("PartySizeSet"))
  /\ [][state' \in {state, state + 1}]_vars

\* an attempt that applied the date selection again after the party size
\* was set, outside the availability sub-protocol, and was completed
C11_Witness ==
  /\ result = "Completed"
  /\ state = StateOf("Submitted")
  /\ \E i \in Interactions : acts[i].a = "click_check_out" /\ acts[i].site = 2

HistoryIdx == 1..Len(acts)
Happened(a) == {i \in HistoryIdx : acts[i].a = a}

\* C12: when the day cell of check_in is found disabled the attempt ends at
\* once with AvailabilityNotFoundError, no cell having been clicked in that
\* date selection; when this is the date-selection step, no cell was
\* clicked at all and the party-size step is not reached.
C12_DisabledCheckInStopsAttempt ==
  \A i \in Happened("check_in_disabled") :
    /\ i = Len(acts)
    /\ AttemptEnded /\ result = AvailabilityNotFoundError
    /\ acts[i - 1].a = "select_date_range"
    /\ acts[i].site = 0 =>
         /\ state = StateOf("WizardReady")
         /\ Happened("click_check_in") = {} /\ Happened("click_check_out") = {}
         /\ Happened("set_party_size") = {}

\* the date-selection step of a request without alternative dates found the
\* check-in cell disabled
C12_Witness ==
  /\ ~config.allow_alternative_dates
  /\ AttemptEnded
  /\ \E i \in Happened("check_in_disabled") : acts[i].site = 0

\* how many times the overnight step was found not to have appeared
NotAdvanced == Cardinality(Happened("not_advanced"))

\* the waitlist rule does not apply to the disabled proceed control noted at
\* i: the request does not allow waitlisting, or the page offered no
\* waiting list just before
NoWaitlistFor(i) ==
  \/ ~config.allow_waitlist
  \/ i > 1 /\ acts[i - 1].a = "no_waitlist_offered"

\* C13 (as stated): a disabled proceed control to which the waitlist rule
\* does not apply does not end the attempt of a request that allows
\* alternative dates with AvailabilityNotFoundError.
C13_AlternativeDatesProceed ==
  \A i \in Happened("proceed_disabled") :
    (config.allow_alternative_dates /\ NoWaitlistFor(i)) =>
      ~(AttemptEnded /\ result = AvailabilityNotFoundError)

\* C13 (amended): a proceed control found disabled when it is to be clicked
\* ends the attempt with AvailabilityNotFoundError, whatever the request
\* says about alternative dates; a request that allows alternative dates
\* and no waitlisting is not stopped when the overnight step has not
\* appeared at the second check, it is stopped when it has not appeared at
\* the third.
C13_AlternativeDatesNeedEnabledControl ==
  /\ \A i \in Happened("proceed_disabled") :
       /\ i = Len(acts)
       /\ AttemptEnded /\ result = AvailabilityNotFoundError
       /\ state = StateOf("PartySizeSet")
  /\ (config.allow_alternative_dates /\ ~config.allow_waitlist) =>
       /\ NotAdvanced = 2 =>
            /\ Happened("dates_not_available") = {}
            /\ ~(AttemptEnded /\ result = AvailabilityNotFoundError)
       /\ NotAdvanced = 3 =>
            /\ AttemptEnded /\ result = AvailabilityNotFoundError
            /\ state = StateOf("PartySizeSet")

\* a request that allows alternative dates and no waitlisting found the
\* proceed control disabled
C13_Witness ==
  /\ config.allow_alternative_dates /\ ~config.allow_waitlist
  /\ AttemptEnded
  /\ Happened("proceed_disabled") # {}

\* C14: for a request that allows neither waitlisting nor alternative dates,
\* a proceed control found disabled, or an overnight step that has not
\* appeared at the second check, ends the attempt with
\* AvailabilityNotFoundError in state PartySizeSet (AvailabilityResolved and
\* the overnight step are not reached).
C14_NoFallbackGivesAvailabilityError ==
  (/\ ~config.allow_waitlist /\ ~config.allow_alternative_dates
   /\ (Happened("proceed_disabled") # {} \/ NotAdvanced >= 2)) =>
    /\ AttemptEnded /\ result = AvailabilityNotFoundError
    /\ state = StateOf("PartySizeSet")
    /\ Happened("fill_overnight") = {}

\* such a request clicked both proceed controls and the overnight step did
\* not appear
C14_Witness ==
  /\ ~config.allow_waitlist /\ ~config.allow_alternative_dates
  /\ AttemptEnded
  /\ NotAdvanced = 2
  /\ Cardinality(Happened("click_proceed")) = 2

\* the dates written in a text: its runs of digits and dots, read as
\* DD.MM.YYYY
DateChars == {DigitChars[i] : i \in 1..10} \cup {"."}
DatesIn(t) ==
  LET spaced == [i \in 1..Len(t) |-> IF t[i] \in DateChars THEN t[i] ELSE " "]
      runs == SplitOn(Strip(CollapseBlanks(spaced)), " ")
  IN  [i \in 1..Len(runs) |-> ParseUiDate(runs[i])]

\* the text encodes the requested check-in and check-out
EncodesRequest(t) == DatesIn(t) = <<strptime(check_in), strptime(check_out)>>

\* the selections and the failures of the verification at a site
SelectedBy(site) ==
  {i \in Happened("select_date_range") : acts[i].site = site}

\* the verification at vsite has just returned
JustVerified == vsite # 0 /\ wpc = AfterVerification[vsite]

\* the verification at vsite has just failed
JustFailedHard ==
  AttemptEnded /\ acts # << >> /\ acts[Len(acts)].a = "date_range_changed"

\* what holds of every verification: one run with alternative dates
\* disallowed is not passed while the text does not encode the request, it
\* applies the selection again at most once, and it fails with
\* RuntimeError when the text read after that does not encode the request
StrictVerification ==
  /\ (JustVerified /\ strict) => EncodesRequest(date_text)
  /\ \A site \in 1..5 : Cardinality(SelectedBy(site)) <= 1
  /\ wpc = "verify_again" => (strict /\ SelectedBy(vsite) # {})
  /\ JustFailedHard =>
       /\ result = RuntimeError
       /\ ~EncodesRequest(date_text)
       /\ SelectedBy(vsite) # {}

\* C18 (as stated): StrictVerification, the verifications of a request
\* with allow_alternative_dates false being run with alternative dates
\* disallowed; and a request with allow_alternative_dates true never has
\* the selection applied again by a verification.
C18_NoSilentDateDrift ==
  /\ StrictVerification
  /\ (~config.allow_alternative_dates /\ vsite # 0) => strict
  /\ config.allow_alternative_dates => \A site \in 1..5 : SelectedBy(site) = {}

\* C18 (amended): as above, but a request with allow_alternative_dates true
\* has a substituted range accepted only by the verifications after the
\* date selection and after the party-size step (lines 1117, 1122); the
\* verifications of the availability sub-protocol (lines 1126, 1141, 1153)
\* are run with alternative dates disallowed for every request.
C18_NoSilentDateDriftBeforeWaitlist ==
  /\ StrictVerification
  /\ (~config.allow_alternative_dates /\ vsite # 0) => strict
  /\ config.allow_alternative_dates =>
       /\ SelectedBy(1) = {} /\ SelectedBy(2) = {}
       /\ vsite \in 1..2 => ~strict
       /\ InAvailability(vsite) => strict

\* a request without alternative dates whose range the site moved when the
\* party size was set: the selection was applied again and the requested
\* range is back
C18_Witness ==
  /\ ~config.allow_alternative_dates
  /\ JustVerified /\ vsite = 2
  /\ SelectedBy(2) # {}
  /\ EncodesRequest(date_text)

(* --------------------------- hut selection ------------------------------ *)

\* the options whose text is the typed name, and those whose text contains
\* it whatever the case
OptionsEqual == {i \in 1..Len(option_texts) : option_texts[i] = hut_name}
OptionsContaining ==
  {i \in 1..Len(option_texts) : Contains(Lower(option_texts[i]), Lower(hut_name))}

\* the option the rules of the claim select (0: none): the only exact
\* match, else the only containing match
Selected ==
  IF Cardinality(OptionsEqual) = 1 THEN CHOOSE i \in OptionsEqual : TRUE
  ELSE IF Cardinality(OptionsContaining) = 1 THEN CHOOSE i \in OptionsContaining : TRUE
  ELSE 0

HutClicked(i) == rpc = "returned" /\ clicked_option = i /\ chosen = option_texts[i]
HutTentative == rpc = "returned" /\ clicked_option = 0 /\ chosen = hut_name
HutFailed == rpc = "raised" /\ clicked_option = 0 /\ chosen = << >>

\* C23 (as stated): a list of one option has that option selected, whatever
\* its text; else the only exact match, else the only containing match is
\* selected; without a list an input that holds a value makes the typed
\* name the result; in every other case the selection fails and nothing is
\* clicked.
C23_HutSelection ==
  (HutCall /\ ResEnded) =>
    IF HutListed
    THEN IF Len(option_texts) = 1 THEN HutClicked(1)
         ELSE IF Selected # 0 THEN HutClicked(Selected)
         ELSE HutFailed
    ELSE IF input_holds THEN HutTentative ELSE HutFailed

\* C23 (amended): as above, but a list of one option is treated as any
\* other list: its option is selected only if it is, or contains, the
\* typed name; otherwise the selection fails and nothing is clicked.
C23_HutSelectionNeedsMatch ==
  (HutCall /\ ResEnded) =>
    IF HutListed
    THEN IF Selected # 0 THEN HutClicked(Selected) ELSE HutFailed
    ELSE IF input_holds THEN HutTentative ELSE HutFailed

\* the list held one option, which contains the typed name in another
\* case, and that option was clicked
C23_Witness ==
  /\ HutCall /\ HutListed
  /\ Len(option_texts) = 1 /\ option_texts[1] # hut_name
  /\ HutClicked(1)

(* ------------------------- main, further claims ------------------------- *)

\* C22: an attempt is followed in the history by its own end (the submit
\* click, if any, then the result) before anything else; an attempt starts
\* and a sleep starts only when no attempt is in flight; no attempt is in
\* flight during a sleep.
C22_OneAttemptInFlight ==
  /\ \A p \in LogIdx :
       /\ (log[p].e = "attempt" /\ p < Len(log)) =>
            /\ log[p + 1].e \in {"submit", "result"}
            /\ log[p + 1].idx = log[p].idx
       /\ (log[p].e = "submit") =>
            /\ p > 1 /\ log[p - 1].e = "attempt"
            /\ p < Len(log) /\ log[p + 1].e = "result"
       /\ (log[p].e = "sleep") => (p > 1 /\ log[p - 1].e = "result")
       /\ (log[p].e = "attempt" /\ p > 1) => log[p - 1].e \in {"result", "sleep"}
  /\ (apc # "idle") = (log # << >> /\ log[Len(log)].e = "attempt")
  /\ wait_time # 0 => apc = "idle"

\* a coordinator is asleep after a cycle of two attempts
C22_Witness ==
  /\ Len(configs) > 1
  /\ wait_time # 0
  /\ NumAttempts >= 2

\* the schedule breaks one of the three conditions
InvalidSchedule(ps) == ~(ps[1] > 0 /\ ps[2] >= 0 /\ ps[3] >= 0)

\* C29: once main() is past its start with polling enabled and an invalid
\* shared schedule, it has raised ValueError, and no attempt and no sleep
\* have happened.
C29_InvalidScheduleRejectedFirst ==
  (pc # "start" /\ poll_settings # << >> /\ InvalidSchedule(poll_settings)) =>
    /\ pc = "raised" /\ err = ValueError
    /\ log = << >>
    /\ apc = "idle" /\ wait_time = 0

\* two requests polled with --poll and a negative jitter
C29_Witness ==
  /\ pc = "raised" /\ err = ValueError
  /\ Len(configs) > 1
  /\ poll_settings # << >> /\ poll_settings[1] > 0 /\ poll_settings[2] < 0

-----------------------------------------------------------------------------
\* run_attempt, the controls of the steps

\* what the test of a control found when the control was disabled
ControlDisabled ==
  {"proceed_disabled", "next_overnight_disabled", "next_personal_disabled",
   "submit_disabled"}

\* the clicks of the continue, next and submit controls
ControlClicks ==
  {"click_proceed", "click_next_overnight", "click_next_personal", "click_submit"}

\* C25: a continue, next or submit control that its test found disabled is
\* not clicked: the finding is the last thing the attempt does with the page
\* and the attempt ends with an error; so every click of such a control
\* follows a test that found it enabled.
C25_DisabledControlNotClicked ==
  /\ \A i \in HistoryIdx :
       acts[i].a \in ControlDisabled =>
         /\ i = Len(acts)
         /\ AttemptEnded
         /\ result \in {AvailabilityNotFoundError, RuntimeError}
  /\ \A i \in HistoryIdx :
       (acts[i].a \in ControlClicks /\ i > 1) => acts[i - 1].a \notin ControlDisabled

\* the personal-data step's control was found disabled after the controls of
\* the availability and overnight steps were clicked
C25_Witness ==
  /\ AttemptEnded
  /\ Happened("next_personal_disabled") # {}
  /\ Happened("click_proceed") # {}
  /\ Happened("click_next_overnight") # {}

\* C26: a disabled control at the overnight, personal-data or summary step
\* ends the attempt with RuntimeError, which is not the error that is
\* retried; a disabled control at the availability step ends it with
\* AvailabilityNotFoundError.
C26_IncompleteStepIsNotUnavailability ==
  \A i \in HistoryIdx :
    /\ acts[i].a \in ControlDisabled \ {"proceed_disabled"} =>
         AttemptEnded /\ result = RuntimeError /\ result # AvailabilityNotFoundError
    /\ acts[i].a = "proceed_disabled" =>
         AttemptEnded /\ result = AvailabilityNotFoundError

\* the submit control was found disabled
C26_Witness ==
  /\ AttemptEnded
  /\ Happened("submit_disabled") # {}
  /\ result = RuntimeError

\* the first time a was done (0: never)
Earliest(a) ==
  IF Happened(a) = {} THEN 0
  ELSE CHOOSE i \in Happened(a) : \A j \in Happened(a) : i <= j

\* what completes the steps before the summary, in the order of the steps
StepsBeforeSummary ==
  <<"login", "choose_hut", "select_date_range", "set_party_size", "click_proceed",
    "click_next_overnight", "click_next_personal">>

\* the box was found ticked, or was ticked, after i and before j
Consented(seen, ticked, i, j) ==
  \E m \in HistoryIdx : i < m /\ m < j /\ acts[m].a \in {seen, ticked}

\* C30: when the submit control is clicked, the steps from the login to the
\* personal data were completed in their order, and after them and before
\* the click each of the two boxes was found ticked or was ticked; a box
\* found ticked is not touched.
C30_SubmitAfterConsent ==
  /\ \A i \in Happened("click_submit") :
       /\ \A n \in 1..Len(StepsBeforeSummary) : Earliest(StepsBeforeSummary[n]) > 0
       /\ \A n \in 1..(Len(StepsBeforeSummary) - 1) :
            Earliest(StepsBeforeSummary[n]) < Earliest(StepsBeforeSummary[n + 1])
       /\ Consented("terms_checked", "check_terms",
                    Earliest("click_next_personal"), i)
       /\ Consented("privacy_checked", "check_privacy",
                    Earliest("click_next_personal"), i)
       /\ state = StateOf("Submitted")
  /\ Happened("terms_checked") = {} \/ Happened("check_terms") = {}
  /\ Happened("privacy_checked") = {} \/ Happened("check_privacy") = {}

\* the submit control was clicked after one box was found ticked and the
\* other was ticked
C30_Witness ==
  /\ Happened("click_submit") # {}
  /\ Happened("terms_checked") # {}
  /\ Happened("check_privacy") # {}

\* an event of the availability step
InAvailabilityStep(i) == acts[i].st = StateOf("PartySizeSet")

\* the waiting list was looked for
WaitlistInvoked == Happened("enable_waitlist") \cup Happened("no_waitlist_offered")

\* C24: for a request that does not allow waitlisting the waiting list is
\* never looked for, at any step; and when the waiting list was enabled in
\* the availability step, the proceed control is tested next: found
\* disabled, the attempt ends with AvailabilityNotFoundError, and only a
\* control found enabled is clicked.
C24_WaitlistOnlyWhenAllowed ==
  /\ ~config.allow_waitlist => WaitlistInvoked = {}
  /\ \A i \in Happened("enable_waitlist") :
       InAvailabilityStep(i) =>
         IF i = Len(acts)
         THEN wpc \in {TestAt[r] : r \in 1..3}
         ELSE \/ /\ acts[i + 1].a = "proceed_disabled"
                 /\ AttemptEnded
                 /\ result = AvailabilityNotFoundError
              \/ acts[i + 1].a = "click_proceed"
              \/ /\ acts[i + 1].a = "proceed_not_found"
                 /\ AttemptEnded
                 /\ result = RuntimeError

\* the waiting list was enabled in the availability step and the proceed
\* control was still disabled
C24_Witness ==
  /\ config.allow_waitlist
  /\ AttemptEnded
  /\ result = AvailabilityNotFoundError
  /\ \E i \in Happened("enable_waitlist") :
       /\ InAvailabilityStep(i)
       /\ i < Len(acts)
       /\ acts[i + 1].a = "proceed_disabled"

-----------------------------------------------------------------------------
\* run_attempt, the steps that do not come

\* what the attempt did last with the page
LastEvent == IF acts = << >> THEN "" ELSE acts[Len(acts)].a

\* the waits for the markers of the next step that ran out
StageFailures ==
  {"wizard_not_reached", "overnight_not_reached", "overnight_form_not_loaded"}

\* the attempt ended because the markers of the next step did not appear
StageFailed == AttemptEnded /\ LastEvent \in StageFailures

\* C27: an attempt that ends because the markers of the next
\* step did not appear ends with an error that is not
\* AvailabilityNotFoundError, also when this is the overnight step after a
\* proceed control was clicked.
C27_StageFailureNotRetried ==
  StageFailed => result # AvailabilityNotFoundError

\* the kinds of error the source gives: the wait for the wizard and the
\* wait for the overnight form end the attempt with RuntimeError when they
\* run out; when the overnight step has not appeared after the proceed
\* controls were clicked the attempt ends with AvailabilityNotFoundError
StageFailureKinds ==
  /\ (AttemptEnded /\ LastEvent = "wizard_not_reached") =>
       result = RuntimeError /\ state = StateOf("HutChosen")
  /\ (AttemptEnded /\ LastEvent = "overnight_form_not_loaded") =>
       result = RuntimeError /\ state = StateOf("AvailabilityResolved")
  /\ (AttemptEnded /\ LastEvent = "overnight_not_reached") =>
       /\ result = AvailabilityNotFoundError
       /\ state = StateOf("PartySizeSet")
       /\ Happened("click_proceed") # {}
  /\ state >= StateOf("WizardReady") => Happened("wizard_not_reached") = {}
  /\ state >= StateOf("AvailabilityResolved") => advanced

-----------------------------------------------------------------------------
\* run_attempt, the availability step as a whole

\* the clicks of the proceed control
ProceedClicks == Cardinality(Happened("click_proceed"))

\* the times the waiting list was looked for in the availability step
WaitlistTries == Cardinality({i \in WaitlistInvoked : InAvailabilityStep(i)})

\* the attempt got as far as the availability step (line 1124): it did
\* something in PartySizeSet other than the verification of line 1122, or it
\* is in a verification of the availability step
EnteredAvailability ==
  \/ \E i \in HistoryIdx : InAvailabilityStep(i) /\ acts[i].site # 2
  \/ state = StateOf("PartySizeSet") /\ InAvailability(vsite)

\* the attempt ended in the availability step
EndedInAvailability ==
  AttemptEnded /\ state = StateOf("PartySizeSet") /\ EnteredAvailability

-----------------------------------------------------------------------------
\* run_attempt, the captures

C33_WaitlistOnlyForRequestedDates ==
  /\ \A i \in WaitlistInvoked :
       InAvailabilityStep(i) =>
         /\ i > 1
         /\ acts[i - 1].a = "verify"
         /\ InAvailability(acts[i - 1].site)
  /\ wpc \in {WaitlistAt[r] : r \in 1..3} =>
       /\ strict
       /\ InAvailability(vsite)
       /\ EncodesRequest(date_text)
  /\ InAvailability(vsite) => strict

\* for a request that allows alternative dates, a verification of the
\* availability step applied the selection again and the waiting list was
\* enabled after it
C33_Witness ==
  /\ config.allow_alternative_dates
  /\ \E site \in 3..5 : SelectedBy(site) # {}
  /\ \E i \in Happened("enable_waitlist") : InAvailabilityStep(i)

====
